---- MODULE Spec2Model ----
(***************************************************************************)
(* Model of the document retrieval engine of backend-study-planner:        *)
(* rag/vector_store.py (VectorStore), rag/retrieval.py (RetrieverEngine)   *)
(* and the /ask handler of app.py.                                         *)
(*                                                                         *)
(* Conventions.  Python None is the model value None.  Cosine scores are   *)
(* tenths (7 is 0.7).  self.index (a faiss.IndexFlatIP) is the sequence of *)
(* the vectors it stores: slot i of FAISS is element i+1.  A dict is a     *)
(* function; document_map has integer keys (the FAISS slot numbers).       *)
(*                                                                         *)
(* Specifications.  Spec: one store and its two files, with saves that may *)
(* fail and stores constructed again.  SpecSearch: the store with search   *)
(* and retrieve, the provider working or failing.  SpecConc: a thread in   *)
(* search beside a thread in add_documents or remove_document, statement   *)
(* by statement.  SpecApp: the handlers of app.py.  SpecRetrieve: retrieve *)
(* on a library of longer texts.  SpecChunk: the chunker as a function of  *)
(* its inputs.  SpecConfig: the handlers under the settings the            *)
(* environment gives.  SpecRace: two requests at a time, each with its own *)
(* store object on the one storage path.                                   *)
(***************************************************************************)
EXTENDS Integers, Sequences, FiniteSets, TLC

(***************************************************************************)
(* Bounds of the model.                                                    *)
(***************************************************************************)
\* Largest number of vectors an add_documents call may grow the index to.
MaxSlots == 3
\* Largest number of calls of _save_index that fail in one behaviour.
MaxFaults == 1
\* Largest number of add_documents and remove_document calls that run beside
\* one search.
MaxOverlap == 1

(***************************************************************************)
(* Configuration (rag/config.py).                                          *)
(***************************************************************************)
similarity_threshold == 7
top_k_results == 5

None == "None"

Truthy(x) == x /= None /\ x /= ""

Min(a, b) == IF a <= b THEN a ELSE b

Max(a, b) == IF a >= b THEN a ELSE b

(***************************************************************************)
(* The inputs: documents, chunk texts, chunks, queries.                    *)
(***************************************************************************)
DocIds == {"d1", "d2"}

Texts == {"ta", "tb", "tc"}

\* The embedding provider: deterministic, one unit vector per text.
Embed(text) ==
    CASE text = "ta" -> "va"
      [] text = "tb" -> "vb"
      [] text = "ti" -> "vi"
      [] text = "tq" -> "vq"
      [] text = "tl" -> "vl"
      [] text = "tm" -> "vm"
      [] OTHER       -> "vc"

\* Inner product of two unit vectors, in tenths; 10 for a vector with itself.
InnerProduct(v, w) ==
    IF v = w THEN 10
    ELSE IF {v, w} = {"va", "vb"} THEN 8
    ELSE IF {v, w} = {"vb", "vc"} THEN 5
    ELSE IF {v, w} = {"vq", "vi"} THEN 9
    ELSE IF {v, w} = {"vq", "vb"} THEN 7
    ELSE IF {v, w} = {"vl", "vm"} THEN 9
    ELSE IF {v, w} = {"vl", "va"} THEN 8
    ELSE 2

\* A chunk as chunk_text emits it.
Chunk(d, n, t) ==
    [document_id |-> d, chunk_id |-> n, text |-> t, metadata |-> [page |-> 1]]

\* The chunks of the two documents; both documents hold a chunk of text "ta".
ChunksOf(d) ==
    IF d = "d1"
    THEN << Chunk("d1", "d1_chunk_0000", "ta"), Chunk("d1", "d1_chunk_0001", "tb") >>
    ELSE << Chunk("d2", "d2_chunk_0000", "ta") >>

AllChunks == UNION { { ChunksOf(d)[i] : i \in 1..Len(ChunksOf(d)) } : d \in DocIds }

\* The chunk lists given to add_documents, which its callers (upload_document,
\* reindex_document) take from chunk_text: no chunk (a blank text), or the
\* first chunks of one document.
ChunkLists ==
    {<< >>} \cup UNION { { SubSeq(ChunksOf(d), 1, n) : n \in 1..Len(ChunksOf(d)) } :
                         d \in DocIds }

\* An optional integer is {} (None) or {n}.  The values of the parameter k of
\* search: None (the default), 0, 1 and 2.
Ks == {{}} \cup { {n} : n \in 0..2 }

\* The k a search call works with: the one given, or top_k_results.
GivenK(k) == IF k = {} THEN top_k_results ELSE CHOOSE n \in k : TRUE

VARIABLES
    index,          \* self.index: the vectors of the FAISS index, slot 0 first
    document_map,   \* self.document_map: slot number -> chunk info
    diskIndex,      \* faiss_index.bin: [state, content]
    diskMap,        \* document_mapping.pkl: [state, content]
    last,           \* the last call, its arguments and its outcome
    faults,         \* the number of saves that have failed
    reader,         \* a thread in search: its position and its locals
    writer,         \* a thread in add_documents or remove_document: the same
    processed_files,            \* the documents with a file in processed_folder
    active_document_store,      \* _active_document_store of app.py
    environ,                    \* os.environ: what RAGConfig.from_env() reads
    requests,       \* the requests in flight: handler thread -> position and locals
    answers         \* document -> the last answer a client got about it

threadVars == << reader, writer >>

raceVars == << requests, answers >>

appVars == << processed_files, active_document_store, environ, raceVars >>

vars == << index, document_map, diskIndex, diskMap, last, faults, threadVars, appVars >>

(***************************************************************************)
(* Durable storage: two files, each absent, unreadable or holding a value. *)
(***************************************************************************)
Absent == [state |-> "absent", content |-> << >>]

Corrupt == [state |-> "corrupt", content |-> << >>]

File(x) == [state |-> "ok", content |-> x]

\* faiss.IndexFlatIP(embedding_dimension): no vectors.
EmptyIndex == << >>

\* {}: the empty dict.
EmptyMap == << >>

ntotal(idx) == Len(idx)

\* VectorStore._load_or_create_index: the pair the constructor starts with.
LoadOrCreateIndex(dIdx, dMap) ==
    IF dIdx.state /= "absent" /\ dMap.state /= "absent"
       /\ dIdx.state = "ok" /\ dMap.state = "ok"
    THEN [index |-> dIdx.content, document_map |-> dMap.content]
    ELSE [index |-> EmptyIndex, document_map |-> EmptyMap]

\* How a call of _save_index ends: both files written, or an exception while
\* the index file is written (the file is left unreadable), on opening the
\* mapping file (it keeps its old content) or while it is written.
SaveOutcomes == {"ok", "index_write", "mapping_open", "mapping_write"}

\* _save_index without its `raise`: a failed write is logged and the call returns.
SaveIndexSilent(idx, dmap, dIdx, dMap, outcome) ==
    CASE outcome = "ok" ->
           [diskIndex |-> File(idx), diskMap |-> File(dmap), raised |-> FALSE]
      [] outcome = "index_write" ->
           [diskIndex |-> Corrupt, diskMap |-> dMap, raised |-> FALSE]
      [] outcome = "mapping_open" ->
           [diskIndex |-> File(idx), diskMap |-> dMap, raised |-> FALSE]
      [] OTHER ->
           [diskIndex |-> File(idx), diskMap |-> Corrupt, raised |-> FALSE]

\* VectorStore._save_index: the files afterwards, and whether it raised.
SaveIndex(idx, dmap, dIdx, dMap, outcome) ==
    CASE outcome = "ok" ->
           [diskIndex |-> File(idx), diskMap |-> File(dmap), raised |-> FALSE]
      [] outcome = "index_write" ->
           [diskIndex |-> Corrupt, diskMap |-> dMap, raised |-> TRUE]
      [] outcome = "mapping_open" ->
           [diskIndex |-> File(idx), diskMap |-> dMap, raised |-> TRUE]
      [] OTHER ->
           [diskIndex |-> File(idx), diskMap |-> Corrupt, raised |-> TRUE]

(***************************************************************************)
(* Embeddings.                                                             *)
(***************************************************************************)
\* VectorStore.generate_embeddings: one vector per text, in order; raises
\* when the provider fails on a non-empty input.
GenerateEmbeddings(texts, provider_ok) ==
    IF Len(texts) = 0 THEN [raised |-> FALSE, vectors |-> << >>]
    ELSE IF ~provider_ok THEN [raised |-> TRUE, vectors |-> << >>]
    ELSE [raised |-> FALSE, vectors |-> [i \in 1..Len(texts) |-> Embed(texts[i])]]

(***************************************************************************)
(* add_documents.                                                          *)
(***************************************************************************)
\* The dict entry add_documents stores for a chunk.
ChunkInfo(chunk) ==
    [document_id |-> chunk.document_id, chunk_id |-> chunk.chunk_id,
     text |-> chunk.text, metadata |-> chunk.metadata]

\* add_documents storing the entry of chunk i under the key start_index + i + 1.
AddDocumentsOffByOne(idx, dmap, chunks, provider_ok) ==
    IF Len(chunks) = 0
    THEN [index |-> idx, document_map |-> dmap, raised |-> FALSE, save |-> FALSE]
    ELSE
      LET texts == [i \in 1..Len(chunks) |-> chunks[i].text]
          emb == GenerateEmbeddings(texts, provider_ok)
          start_index == ntotal(idx)
          new_keys == { start_index + i : i \in 1..Len(chunks) }
      IN  IF emb.raised
          THEN [index |-> idx, document_map |-> dmap, raised |-> TRUE, save |-> FALSE]
          ELSE [index |-> idx \o emb.vectors,
                document_map |->
                    [key \in (DOMAIN dmap) \cup new_keys |->
                        IF key \in new_keys
                        THEN ChunkInfo(chunks[key - start_index])
                        ELSE dmap[key]],
                raised |-> FALSE, save |-> TRUE]

\* add_documents leaving out the chunks whose chunk_id the mapping already holds.
AddDocumentsSkippingKnownIds(idx, dmap, chunks, provider_ok) ==
    IF Len(chunks) = 0
    THEN [index |-> idx, document_map |-> dmap, raised |-> FALSE, save |-> FALSE]
    ELSE
      LET fresh == SelectSeq(chunks, LAMBDA chunk :
                       \A key \in DOMAIN dmap : dmap[key].chunk_id /= chunk.chunk_id)
          texts == [i \in 1..Len(fresh) |-> fresh[i].text]
          emb == GenerateEmbeddings(texts, provider_ok)
          start_index == ntotal(idx)
          new_keys == { start_index + i - 1 : i \in 1..Len(fresh) }
      IN  IF emb.raised
          THEN [index |-> idx, document_map |-> dmap, raised |-> TRUE, save |-> FALSE]
          ELSE IF Len(emb.vectors) = 0
          THEN [index |-> idx, document_map |-> dmap, raised |-> FALSE, save |-> FALSE]
          ELSE [index |-> idx \o emb.vectors,
                document_map |->
                    [key \in (DOMAIN dmap) \cup new_keys |->
                        IF key \in new_keys
                        THEN ChunkInfo(fresh[key - start_index + 1])
                        ELSE dmap[key]],
                raised |-> FALSE, save |-> TRUE]

\* VectorStore.add_documents up to its call of _save_index: the in-memory
\* pair, whether it raised, and whether it goes on to save.
AddDocuments(idx, dmap, chunks, provider_ok) ==
    IF Len(chunks) = 0
    THEN [index |-> idx, document_map |-> dmap, raised |-> FALSE, save |-> FALSE]
    ELSE
      LET texts == [i \in 1..Len(chunks) |-> chunks[i].text]
          emb == GenerateEmbeddings(texts, provider_ok)
          start_index == ntotal(idx)
          new_keys == { start_index + i - 1 : i \in 1..Len(chunks) }
      IN  IF emb.raised
          THEN [index |-> idx, document_map |-> dmap, raised |-> TRUE, save |-> FALSE]
          ELSE IF Len(emb.vectors) = 0
          THEN [index |-> idx, document_map |-> dmap, raised |-> FALSE, save |-> FALSE]
          ELSE [index |-> idx \o emb.vectors,
                document_map |->
                    [key \in (DOMAIN dmap) \cup new_keys |->
                        IF key \in new_keys
                        THEN ChunkInfo(chunks[key - start_index + 1])
                        ELSE dmap[key]],
                raised |-> FALSE, save |-> TRUE]

(***************************************************************************)
(* remove_document and clear.                                              *)
(***************************************************************************)
\* The keys of a dict in iteration order.  Keys are inserted in increasing
\* order by add_documents and by the rebuild, so this is increasing order.
RECURSIVE KeysInOrder(_)
KeysInOrder(S) ==
    IF S = {} THEN << >>
    ELSE LET m == CHOOSE x \in S : \A y \in S : x <= y
         IN  << m >> \o KeysInOrder(S \ {m})

\* remove_document with a keep list that also keeps slot 0 whatever it holds.
RemoveDocumentKeepingSlot0(idx, dmap, document_id) ==
    IF DOMAIN dmap = {}
    THEN [index |-> idx, document_map |-> dmap, result |-> 0,
          raised |-> FALSE, save |-> FALSE]
    ELSE
      LET indices_to_keep ==
              SelectSeq(KeysInOrder(DOMAIN dmap),
                        LAMBDA key : dmap[key].document_id /= document_id \/ key = 0)
          removed_count == Cardinality(DOMAIN dmap) - Len(indices_to_keep)
      IN  IF Len(indices_to_keep) = Cardinality(DOMAIN dmap)
          THEN [index |-> idx, document_map |-> dmap, result |-> 0,
                raised |-> FALSE, save |-> FALSE]
          ELSE IF \E i \in 1..Len(indices_to_keep) : indices_to_keep[i] >= ntotal(idx)
          THEN [index |-> idx, document_map |-> dmap, result |-> 0,
                raised |-> TRUE, save |-> FALSE]
          ELSE [index |-> [i \in 1..Len(indices_to_keep) |-> idx[indices_to_keep[i] + 1]],
                document_map |->
                    [new_idx \in 0..(Len(indices_to_keep) - 1) |->
                        dmap[indices_to_keep[new_idx + 1]]],
                result |-> removed_count, raised |-> FALSE, save |-> TRUE]

\* remove_document with a new mapping that keeps the old slot numbers as keys.
RemoveDocumentKeepingOldKeys(idx, dmap, document_id) ==
    IF DOMAIN dmap = {}
    THEN [index |-> idx, document_map |-> dmap, result |-> 0,
          raised |-> FALSE, save |-> FALSE]
    ELSE
      LET indices_to_keep ==
              SelectSeq(KeysInOrder(DOMAIN dmap),
                        LAMBDA key : dmap[key].document_id /= document_id)
          removed_count == Cardinality(DOMAIN dmap) - Len(indices_to_keep)
      IN  IF Len(indices_to_keep) = Cardinality(DOMAIN dmap)
          THEN [index |-> idx, document_map |-> dmap, result |-> 0,
                raised |-> FALSE, save |-> FALSE]
          ELSE IF Len(indices_to_keep) = 0
          THEN [index |-> EmptyIndex, document_map |-> EmptyMap,
                result |-> removed_count, raised |-> FALSE, save |-> TRUE]
          ELSE IF \E i \in 1..Len(indices_to_keep) : indices_to_keep[i] >= ntotal(idx)
          THEN [index |-> idx, document_map |-> dmap, result |-> 0,
                raised |-> TRUE, save |-> FALSE]
          ELSE [index |-> [i \in 1..Len(indices_to_keep) |-> idx[indices_to_keep[i] + 1]],
                document_map |->
                    [old_idx \in { indices_to_keep[i] : i \in 1..Len(indices_to_keep) } |->
                        dmap[old_idx]],
                result |-> removed_count, raised |-> FALSE, save |-> TRUE]

\* remove_document that saves also when no slot belongs to the document.
RemoveDocumentSavingAlways(idx, dmap, document_id) ==
    IF DOMAIN dmap = {}
    THEN [index |-> idx, document_map |-> dmap, result |-> 0,
          raised |-> FALSE, save |-> TRUE]
    ELSE
      LET indices_to_keep ==
              SelectSeq(KeysInOrder(DOMAIN dmap),
                        LAMBDA key : dmap[key].document_id /= document_id)
          removed_count == Cardinality(DOMAIN dmap) - Len(indices_to_keep)
      IN  IF Len(indices_to_keep) = Cardinality(DOMAIN dmap)
          THEN [index |-> idx, document_map |-> dmap, result |-> 0,
                raised |-> FALSE, save |-> TRUE]
          ELSE IF Len(indices_to_keep) = 0
          THEN [index |-> EmptyIndex, document_map |-> EmptyMap,
                result |-> removed_count, raised |-> FALSE, save |-> TRUE]
          ELSE IF \E i \in 1..Len(indices_to_keep) : indices_to_keep[i] >= ntotal(idx)
          THEN [index |-> idx, document_map |-> dmap, result |-> 0,
                raised |-> TRUE, save |-> FALSE]
          ELSE [index |-> [i \in 1..Len(indices_to_keep) |-> idx[indices_to_keep[i] + 1]],
                document_map |->
                    [new_idx \in 0..(Len(indices_to_keep) - 1) |->
                        dmap[indices_to_keep[new_idx + 1]]],
                result |-> removed_count, raised |-> FALSE, save |-> TRUE]

\* VectorStore.remove_document up to its call of _save_index.  The call
\* index.reconstruct(old_idx) raises for a slot the index does not hold.
RemoveDocument(idx, dmap, document_id) ==
    IF DOMAIN dmap = {}
    THEN [index |-> idx, document_map |-> dmap, result |-> 0,
          raised |-> FALSE, save |-> FALSE]
    ELSE
      LET indices_to_keep ==
              SelectSeq(KeysInOrder(DOMAIN dmap),
                        LAMBDA key : dmap[key].document_id /= document_id)
          removed_count == Cardinality(DOMAIN dmap) - Len(indices_to_keep)
      IN  IF Len(indices_to_keep) = Cardinality(DOMAIN dmap)
          THEN [index |-> idx, document_map |-> dmap, result |-> 0,
                raised |-> FALSE, save |-> FALSE]
          ELSE IF Len(indices_to_keep) = 0
          THEN [index |-> EmptyIndex, document_map |-> EmptyMap,
                result |-> removed_count, raised |-> FALSE, save |-> TRUE]
          ELSE IF \E i \in 1..Len(indices_to_keep) : indices_to_keep[i] >= ntotal(idx)
          THEN [index |-> idx, document_map |-> dmap, result |-> 0,
                raised |-> TRUE, save |-> FALSE]
          ELSE [index |-> [i \in 1..Len(indices_to_keep) |-> idx[indices_to_keep[i] + 1]],
                document_map |->
                    [new_idx \in 0..(Len(indices_to_keep) - 1) |->
                        dmap[indices_to_keep[new_idx + 1]]],
                result |-> removed_count, raised |-> FALSE, save |-> TRUE]

\* VectorStore.get_stats()['total_vectors'].
TotalVectors(idx) == ntotal(idx)

(***************************************************************************)
(* search.                                                                 *)
(***************************************************************************)
\* self.index.search(query_embedding, n): the slots of n nearest neighbours
\* by inner product, best first.  FAISS does not say which of several equally
\* scored vectors it lists first or keeps, so every such list is possible.
NeighbourLists(idx, qv, n) ==
    LET score(slot) == InnerProduct(qv, idx[slot + 1])
        slots == 0..(ntotal(idx) - 1)
    IN  { s \in [1..n -> slots] :
            /\ \A i, j \in 1..n : i < j => s[i] /= s[j] /\ score(s[i]) >= score(s[j])
            /\ \A m \in slots : (\A i \in 1..n : s[i] /= m)
                                    => \A i \in 1..n : score(m) <= score(s[i]) }

\* The loop of search without its test of the score against the threshold.
RECURSIVE FormatResultsAnyScore(_, _, _, _, _, _, _)
FormatResultsAnyScore(idx, dmap, qv, neighbours, i, threshold, document_id) ==
    IF i > Len(neighbours) THEN << >>
    ELSE
      LET slot == neighbours[i]
          score == InnerProduct(qv, idx[slot + 1])
          known == slot \in DOMAIN dmap
          rest == FormatResultsAnyScore(idx, dmap, qv, neighbours, i + 1, threshold,
                                        document_id)
      IN  IF slot = -1 THEN rest
          ELSE IF Truthy(document_id)
                  /\ (IF known THEN dmap[slot].document_id ELSE None) /= document_id
          THEN rest
          ELSE << [score |-> score,
                   document_id |-> IF known THEN dmap[slot].document_id ELSE "unknown",
                   chunk_id |-> IF known THEN dmap[slot].chunk_id ELSE "unknown",
                   text |-> IF known THEN dmap[slot].text ELSE "",
                   metadata |-> IF known THEN dmap[slot].metadata ELSE << >>] >> \o rest

\* One pass of the loop of search over zip(scores[0], indices[0]): what it
\* appends to results for one neighbour, nothing or one result.
FormatResult(score, slot, dmap, threshold, document_id) ==
    LET known == slot \in DOMAIN dmap
    IN  IF slot = -1 THEN << >>
        ELSE IF score < threshold THEN << >>
        ELSE IF Truthy(document_id)
                /\ (IF known THEN dmap[slot].document_id ELSE None) /= document_id
        THEN << >>
        ELSE << [score |-> score,
                 document_id |-> IF known THEN dmap[slot].document_id ELSE "unknown",
                 chunk_id |-> IF known THEN dmap[slot].chunk_id ELSE "unknown",
                 text |-> IF known THEN dmap[slot].text ELSE "",
                 metadata |-> IF known THEN dmap[slot].metadata ELSE << >>] >>

\* The whole loop: the results appended for the neighbours from position i on.
RECURSIVE FormatResults(_, _, _, _, _, _, _)
FormatResults(idx, dmap, qv, neighbours, i, threshold, document_id) ==
    IF i > Len(neighbours) THEN << >>
    ELSE FormatResult(InnerProduct(qv, idx[neighbours[i] + 1]), neighbours[i], dmap,
                      threshold, document_id)
         \o FormatResults(idx, dmap, qv, neighbours, i + 1, threshold, document_id)

\* VectorStore.search: every run it can make.  A run is the neighbour list
\* FAISS gave, the list returned, whether an exception was caught on the way
\* (the provider failing, or FAISS refusing k < 1: search logs it and returns
\* []), and whether the call raised to its caller.
SearchRuns(idx, dmap, query, k, document_id, provider_ok, threshold, top_k) ==
    LET kk == IF k = {} THEN top_k ELSE GivenK(k)
        emb == GenerateEmbeddings(<< query >>, provider_ok)
    IN  IF ntotal(idx) = 0
        THEN { [neighbours |-> << >>, results |-> << >>, caught |-> FALSE,
                 raised |-> FALSE] }
        ELSE IF emb.raised \/ kk < 1
        THEN { [neighbours |-> << >>, results |-> << >>, caught |-> TRUE,
                 raised |-> FALSE] }
        ELSE { [neighbours |-> nb,
                results |-> FormatResults(idx, dmap, emb.vectors[1], nb, 1,
                                          threshold, document_id),
                caught |-> FALSE, raised |-> FALSE] :
               nb \in NeighbourLists(idx, emb.vectors[1], Min(kk, ntotal(idx))) }

(***************************************************************************)
(* The chunk texts, as far as the quality filter and the context assembly  *)
(* read them: the length, the lines with the patterns each matches, and    *)
(* the number of words of three letters or more.                           *)
(***************************************************************************)
max_context_length == 4000

\* What _is_low_quality_chunk reads of one line: len(line.strip()) and which
\* of its five patterns the stripped line matches.
Line(n, dots, numbered, section, pagenum, keyword) ==
    [length |-> n, dot_leader |-> dots, numbered_title |-> numbered,
     section_heading |-> section, page_number |-> pagenum, toc_keyword |-> keyword]

\* "ta": one line of prose, 250 characters.  "tb": the one line
\* "Table of Contents .......... 1".  "tc": one line of prose, 120 characters.
\* "ti": the one line "The invoice total is $450 due on May 1.".  "tq": the
\* query "invoice total".  "tl", "tm": one line of prose each, 2500 and 1493
\* characters.  "": the text of a result whose slot has no entry in
\* document_map.
TextLen(text) ==
    CASE text = "ta" -> 250
      [] text = "tb" -> 30
      [] text = "tc" -> 120
      [] text = "ti" -> 39
      [] text = "tq" -> 13
      [] text = "tl" -> 2500
      [] text = "tm" -> 1493
      [] OTHER       -> 0

StripLen(text) == TextLen(text)

Lines(text) ==
    CASE text = "ta" -> << Line(250, FALSE, FALSE, FALSE, FALSE, FALSE) >>
      [] text = "tb" -> << Line(30, TRUE, FALSE, FALSE, FALSE, TRUE) >>
      [] text = "tc" -> << Line(120, FALSE, FALSE, FALSE, FALSE, FALSE) >>
      [] text = "ti" -> << Line(39, FALSE, FALSE, FALSE, FALSE, FALSE) >>
      [] text = "tq" -> << Line(13, FALSE, FALSE, FALSE, FALSE, FALSE) >>
      [] text = "tl" -> << Line(2500, FALSE, FALSE, FALSE, FALSE, FALSE) >>
      [] text = "tm" -> << Line(1493, FALSE, FALSE, FALSE, FALSE, FALSE) >>
      [] OTHER       -> << Line(0, FALSE, FALSE, FALSE, FALSE, FALSE) >>

WordCount(text) ==
    CASE text = "ta" -> 36
      [] text = "tb" -> 2
      [] text = "tc" -> 18
      [] text = "ti" -> 5
      [] text = "tq" -> 2
      [] text = "tl" -> 360
      [] text = "tm" -> 215
      [] OTHER       -> 0

RECURSIVE SumSeq(_)
SumSeq(s) == IF Len(s) = 0 THEN 0 ELSE Head(s) + SumSeq(Tail(s))

\* RetrieverEngine._is_low_quality_chunk.  The ratios are compared without
\* division: t / n > 0.25 is 4t > n, and w / (c / 6) < 0.3 is 20w < c.
IsLowQualityChunk(text) ==
    IF text = "" \/ StripLen(text) < 20 THEN TRUE
    ELSE
      LET lines == Lines(text)
          indicators(l) ==
              (IF l.dot_leader THEN 1 ELSE 0)
              + (IF l.numbered_title THEN 1 ELSE 0)
              + (IF l.section_heading THEN 1 ELSE 0)
              + (IF l.page_number /\ l.length < 100 THEN 1 ELSE 0)
              + (IF l.toc_keyword THEN 2 ELSE 0)
          toc_indicators == SumSeq([i \in 1..Len(lines) |-> indicators(lines[i])])
      IN  IF Len(lines) > 0 /\ 4 * toc_indicators > Len(lines) THEN TRUE
          ELSE IF Len(lines) <= 3 /\ \A i \in 1..Len(lines) : lines[i].length < 50
          THEN TRUE
          ELSE IF TextLen(text) > 50 /\ 20 * WordCount(text) < TextLen(text) THEN TRUE
          ELSE FALSE

(***************************************************************************)
(* retrieve.                                                               *)
(***************************************************************************)
\* The context cut already when the joined string has max_length characters.
ContextCutFromMaxLength(context_parts, max_length) ==
    LET joined == SumSeq([i \in 1..Len(context_parts) |-> TextLen(context_parts[i])])
                  + 7 * Max(Len(context_parts) - 1, 0)
    IN  [parts |-> context_parts,
         length |-> IF joined >= max_length THEN max_length + 3 ELSE joined,
         truncated |-> joined >= max_length]

\* "\n\n---\n\n".join(context_parts), as the texts joined and the length of
\* the string; cut to max_length characters plus "..." when it is longer.
Context(context_parts, max_length) ==
    LET joined == SumSeq([i \in 1..Len(context_parts) |-> TextLen(context_parts[i])])
                  + 7 * Max(Len(context_parts) - 1, 0)
    IN  [parts |-> context_parts,
         length |-> IF joined > max_length THEN max_length + 3 ELSE joined,
         truncated |-> joined > max_length]

\* One entry of sources.
Source(result) ==
    [document_id |-> result.document_id,
     chunk_id |-> result.chunk_id,
     score |-> result.score,
     page |-> IF "page" \in DOMAIN result.metadata THEN result.metadata.page ELSE 1,
     snippet |-> [of |-> result.text,
                  length |-> IF TextLen(result.text) > 200 THEN 200 + 3
                             ELSE TextLen(result.text)]]

\* The return for no search results with one result counted.
EmptyRetrievalOneFound(query) ==
    [context |-> Context(<< >>, max_context_length),
     sources |-> << >>,
     retrieval_stats |-> [query |-> query, results_found |-> 1,
                          avg_score |-> [total |-> 0, count |-> 1]]]

\* What retrieve returns for no search results.
EmptyRetrieval(query) ==
    [context |-> Context(<< >>, max_context_length),
     sources |-> << >>,
     retrieval_stats |-> [query |-> query, results_found |-> 0,
                          avg_score |-> [total |-> 0, count |-> 1]]]

\* What the except branch of retrieve returns.
ErrorRetrieval(query) ==
    [context |-> Context(<< >>, max_context_length),
     sources |-> << >>,
     retrieval_stats |-> [query |-> query, results_found |-> 0,
                          avg_score |-> [total |-> 0, count |-> 1],
                          error |-> "error"]]

\* retrieve without the return to the original results when the filter has
\* kept none.
RetrieveNoFallback(query, run, max_length) ==
    IF run.raised THEN ErrorRetrieval(query)
    ELSE IF Len(run.results) = 0 THEN EmptyRetrieval(query)
    ELSE
      LET search_results == run.results
          filtered_results == SelectSeq(search_results,
                                        LAMBDA r : ~IsLowQualityChunk(r.text))
          n == Len(filtered_results)
      IN  [context |-> Context([i \in 1..n |-> filtered_results[i].text], max_length),
           sources |-> [i \in 1..n |-> Source(filtered_results[i])],
           retrieval_stats |->
               [query |-> query,
                results_found |-> n,
                total_retrieved |-> Len(search_results),
                filtered_out |-> Len(search_results) - n,
                avg_score |-> [total |-> SumSeq([i \in 1..n |-> filtered_results[i].score]),
                               count |-> Max(n, 1)]]]

\* retrieve with avg_score taken over the search results, not over the
\* filtered ones.
RetrieveAvgOverRaw(query, run, max_length) ==
    IF run.raised THEN ErrorRetrieval(query)
    ELSE IF Len(run.results) = 0 THEN EmptyRetrieval(query)
    ELSE
      LET search_results == run.results
          kept == SelectSeq(search_results, LAMBDA r : ~IsLowQualityChunk(r.text))
          filtered_results == IF Len(kept) = 0 THEN search_results ELSE kept
          n == Len(filtered_results)
      IN  [context |-> Context([i \in 1..n |-> filtered_results[i].text], max_length),
           sources |-> [i \in 1..n |-> Source(filtered_results[i])],
           retrieval_stats |->
               [query |-> query,
                results_found |-> n,
                total_retrieved |-> Len(search_results),
                filtered_out |-> Len(search_results) - n,
                avg_score |-> [total |-> SumSeq([i \in 1..Len(search_results) |->
                                                    search_results[i].score]),
                               count |-> Len(search_results)]]]

\* RetrieverEngine.retrieve on one run of vector_store.search.  avg_score is
\* kept as the total score and the count it is divided by.
Retrieve(query, run, max_length) ==
    IF run.raised THEN ErrorRetrieval(query)
    ELSE IF Len(run.results) = 0 THEN EmptyRetrieval(query)
    ELSE
      LET search_results == run.results
          kept == SelectSeq(search_results, LAMBDA r : ~IsLowQualityChunk(r.text))
          filtered_results == IF Len(kept) = 0 THEN search_results ELSE kept
          n == Len(filtered_results)
      IN  [context |-> Context([i \in 1..n |-> filtered_results[i].text], max_length),
           sources |-> [i \in 1..n |-> Source(filtered_results[i])],
           retrieval_stats |->
               [query |-> query,
                results_found |-> n,
                total_retrieved |-> Len(search_results),
                filtered_out |-> Len(search_results) - n,
                avg_score |-> [total |-> SumSeq([i \in 1..n |-> filtered_results[i].score]),
                               count |-> n]]]

(***************************************************************************)
(* The store as a state machine: one VectorStore object, the two files of  *)
(* its storage path, and the calls made on it.                             *)
(***************************************************************************)
Queries == Texts

Scopes == DocIds \cup {None}

DocsOf(chunks) == { chunks[i].document_id : i \in 1..Len(chunks) }

\* The slots document_map binds to a document.
SlotsOf(dmap, d) == { key \in DOMAIN dmap : dmap[key].document_id = d }

\* The outcomes a save may have when `failing` says whether saves may fail.
Outcomes(failing) ==
    IF failing /\ faults < MaxFaults THEN SaveOutcomes ELSE {"ok"}

Failed(outcome) == IF outcome \in {"ok", "none"} THEN 0 ELSE 1

\* A thread that is in no call.
Idle == [pc |-> "idle"]

\* The threads of the development server (app.run is threaded): two may be
\* in a handler at the same time.
Handlers == {1, 2}

\* A handler thread that serves no request.
NoRequest == [pc |-> "idle"]

\* No answer about a document yet.
NoAnswer == [op |-> "none", status |-> 0, total_vectors |-> 0]

\* The settings RAGConfig.from_env() gives when the environment sets none of
\* them: chunk_size = 800, chunk_overlap = 150, similarity_threshold = 0.7.
DefaultEnviron ==
    [chunk_size |-> 800, chunk_overlap |-> 150,
     similarity_threshold |-> similarity_threshold]

Init ==
    /\ index = EmptyIndex
    /\ document_map = EmptyMap
    /\ diskIndex = Absent
    /\ diskMap = Absent
    /\ last = [op |-> "init", raised |-> FALSE]
    /\ faults = 0
    /\ reader = Idle
    /\ writer = Idle
    /\ processed_files = {}
    /\ active_document_store = EmptyMap
    /\ requests = [h \in Handlers |-> NoRequest]
    /\ answers = [d \in DocIds |-> NoAnswer]
    /\ environ = DefaultEnviron

\* VectorStore(config): a new store object on the same storage path takes the
\* place of the old one.
new_VectorStore ==
    LET loaded == LoadOrCreateIndex(diskIndex, diskMap)
    IN  /\ index' = loaded.index
        /\ document_map' = loaded.document_map
        /\ last' = [op |-> "VectorStore", raised |-> FALSE]
        /\ UNCHANGED << diskIndex, diskMap, faults, threadVars, appVars >>

\* add_documents(chunks), with the provider working or failing and the save
\* ending in one of its outcomes.
AddDocumentsCall(failing) ==
    \E chunks \in ChunkLists, provider_ok \in BOOLEAN, outcome \in Outcomes(failing) :
        /\ ntotal(index) + Len(chunks) <= MaxSlots
        /\ UNCHANGED << threadVars, appVars >>
        /\ LET r == AddDocuments(index, document_map, chunks, provider_ok)
               saved == IF r.save
                        THEN SaveIndex(r.index, r.document_map, diskIndex, diskMap, outcome)
                        ELSE [diskIndex |-> diskIndex, diskMap |-> diskMap,
                              raised |-> FALSE]
               save == IF r.save THEN outcome ELSE "none"
           IN  /\ index' = r.index
               /\ document_map' = r.document_map
               /\ diskIndex' = saved.diskIndex
               /\ diskMap' = saved.diskMap
               /\ faults' = faults + Failed(save)
               /\ last' = [op |-> "add_documents", chunks |-> chunks,
                           provider_ok |-> provider_ok, save |-> save,
                           raised |-> r.raised \/ saved.raised]

\* remove_document(document_id).
RemoveDocumentCall(failing) ==
    \E d \in DocIds, outcome \in Outcomes(failing) :
        LET r == RemoveDocument(index, document_map, d)
            saved == IF r.save
                     THEN SaveIndex(r.index, r.document_map, diskIndex, diskMap, outcome)
                     ELSE [diskIndex |-> diskIndex, diskMap |-> diskMap,
                           raised |-> FALSE]
            save == IF r.save THEN outcome ELSE "none"
        IN  /\ index' = r.index
            /\ document_map' = r.document_map
            /\ diskIndex' = saved.diskIndex
            /\ diskMap' = saved.diskMap
            /\ faults' = faults + Failed(save)
            /\ last' = [op |-> "remove_document", document_id |-> d, save |-> save,
                        raised |-> r.raised \/ saved.raised,
                        result |-> r.result,
                        bound_before |-> Cardinality(SlotsOf(document_map, d)),
                        total_before |-> TotalVectors(index)]
            /\ UNCHANGED << threadVars, appVars >>

\* clear().
ClearCall(failing) ==
    \E outcome \in Outcomes(failing) :
        LET saved == SaveIndex(EmptyIndex, EmptyMap, diskIndex, diskMap, outcome)
        IN  /\ index' = EmptyIndex
            /\ document_map' = EmptyMap
            /\ diskIndex' = saved.diskIndex
            /\ diskMap' = saved.diskMap
            /\ faults' = faults + Failed(outcome)
            /\ last' = [op |-> "clear", save |-> outcome, raised |-> saved.raised]
            /\ UNCHANGED << threadVars, appVars >>

add_documents == AddDocumentsCall(TRUE)

remove_document == RemoveDocumentCall(TRUE)

clear == ClearCall(TRUE)

Next ==
    \/ new_VectorStore
    \/ add_documents
    \/ remove_document
    \/ clear

Spec == Init /\ [][Next]_vars

(***************************************************************************)
(* The store read by search and retrieve.  The saves succeed here; the     *)
(* embedding provider works or fails.                                      *)
(***************************************************************************)
add_documents_saved == AddDocumentsCall(FALSE)

remove_document_saved == RemoveDocumentCall(FALSE)

clear_saved == ClearCall(FALSE)

\* search and retrieve leave the store as it is: a read that follows a read
\* sees what it would see in its place, so the reads are taken in the states
\* the other calls leave.
Reads == {"search", "retrieve"}

\* search(query, k, document_id) on the store; prev is the call before it.
search ==
    /\ last.op \notin Reads
    /\ \E query \in Queries, k \in Ks, document_id \in Scopes, provider_ok \in BOOLEAN :
        \E run \in SearchRuns(index, document_map, query, k, document_id, provider_ok,
                              similarity_threshold, top_k_results) :
            /\ last' = [op |-> "search", query |-> query, k |-> k,
                        document_id |-> document_id, provider_ok |-> provider_ok,
                        neighbours |-> run.neighbours, results |-> run.results,
                        caught |-> run.caught, raised |-> run.raised,
                        prev |-> last]
            /\ UNCHANGED << index, document_map, diskIndex, diskMap, faults,
                            threadVars, appVars >>

\* retrieve(query, k, document_id) of a RetrieverEngine on the store.
retrieve ==
    /\ last.op \notin Reads
    /\ \E query \in Queries, k \in Ks, document_id \in Scopes, provider_ok \in BOOLEAN :
        \E run \in SearchRuns(index, document_map, query, k, document_id, provider_ok,
                              similarity_threshold, top_k_results) :
            /\ last' = [op |-> "retrieve", query |-> query, k |-> k,
                        document_id |-> document_id, provider_ok |-> provider_ok,
                        search_results |-> run.results,
                        failed |-> run.caught \/ run.raised,
                        raised |-> FALSE,
                        result |-> Retrieve(query, run, max_context_length)]
            /\ UNCHANGED << index, document_map, diskIndex, diskMap, faults,
                            threadVars, appVars >>

NextSearch ==
    \/ add_documents_saved
    \/ remove_document_saved
    \/ clear_saved
    \/ search
    \/ retrieve

SpecSearch == Init /\ [][NextSearch]_vars

(***************************************************************************)
(* A RetrieverEngine on a store of two other documents: inv1, a table of   *)
(* contents line and an invoice line, and big1, two long chunks and a      *)
(* short one.  The provider works and the saves succeed.                   *)
(***************************************************************************)
Library == {"inv1", "big1"}

LibraryChunks(d) ==
    IF d = "inv1"
    THEN << Chunk("inv1", "inv1_chunk_0000", "tb"), Chunk("inv1", "inv1_chunk_0001", "ti") >>
    ELSE << Chunk("big1", "big1_chunk_0000", "tl"), Chunk("big1", "big1_chunk_0001", "tm"),
            Chunk("big1", "big1_chunk_0002", "ta") >>

LibraryQueries == {"tq", "tl", "tb"}

\* add_documents of the first chunks of a document of the library.
ingest ==
    \E d \in Library :
        \E n \in 1..Len(LibraryChunks(d)) :
            LET chunks == SubSeq(LibraryChunks(d), 1, n)
                r == AddDocuments(index, document_map, chunks, TRUE)
                saved == SaveIndex(r.index, r.document_map, diskIndex, diskMap, "ok")
            IN  /\ ntotal(index) + Len(chunks) <= MaxSlots
                /\ index' = r.index
                /\ document_map' = r.document_map
                /\ diskIndex' = saved.diskIndex
                /\ diskMap' = saved.diskMap
                /\ last' = [op |-> "add_documents", chunks |-> chunks,
                            provider_ok |-> TRUE, save |-> "ok",
                            raised |-> r.raised \/ saved.raised]
                /\ UNCHANGED << faults, threadVars, appVars >>

\* remove_document of a document of the library that has slots.
forget ==
    \E d \in Library :
        LET r == RemoveDocument(index, document_map, d)
            saved == SaveIndex(r.index, r.document_map, diskIndex, diskMap, "ok")
        IN  /\ r.save
            /\ index' = r.index
            /\ document_map' = r.document_map
            /\ diskIndex' = saved.diskIndex
            /\ diskMap' = saved.diskMap
            /\ last' = [op |-> "remove_document", document_id |-> d, save |-> "ok",
                        raised |-> r.raised \/ saved.raised, result |-> r.result,
                        bound_before |-> Cardinality(SlotsOf(document_map, d)),
                        total_before |-> TotalVectors(index)]
            /\ UNCHANGED << faults, threadVars, appVars >>

\* retrieve(query, k, document_id) on the library.
retrieve_library ==
    /\ last.op /= "retrieve"
    /\ \E query \in LibraryQueries, k \in Ks, document_id \in Library \cup {None} :
        \E run \in SearchRuns(index, document_map, query, k, document_id, TRUE,
                              similarity_threshold, top_k_results) :
            /\ last' = [op |-> "retrieve", query |-> query, k |-> k,
                        document_id |-> document_id, provider_ok |-> TRUE,
                        search_results |-> run.results,
                        failed |-> run.caught \/ run.raised,
                        raised |-> FALSE,
                        result |-> Retrieve(query, run, max_context_length)]
            /\ UNCHANGED << index, document_map, diskIndex, diskMap, faults,
                            threadVars, appVars >>

NextRetrieve ==
    \/ ingest
    \/ forget
    \/ retrieve_library

SpecRetrieve == Init /\ [][NextRetrieve]_vars

(***************************************************************************)
(* Two threads on one VectorStore object: one in search, one in            *)
(* add_documents or remove_document, each taking the statements of its     *)
(* method one at a time.  No lock guards self.index or self.document_map.  *)
(* The provider works and the saves succeed.                               *)
(***************************************************************************)
Pair(idx, dmap) == [index |-> idx, document_map |-> dmap]

\* The versions of the store a search that is running now may answer from:
\* the pair as no call is changing it, or the pairs before and after the
\* call that is changing it.
Versions ==
    IF writer.pc = "idle" THEN { Pair(index, document_map) }
    ELSE { writer.before, writer.after }

\* search returns to its caller.
SearchReturn(results) ==
    /\ last' = [op |-> "search", query |-> reader.query, k |-> reader.k,
                document_id |-> reader.document_id, results |-> results,
                versions |-> reader.versions, raised |-> FALSE]
    /\ reader' = Idle

\* The threads are followed until the search returns: what it returns does
\* not depend on the searches before it, which leave the store as it is.  A
\* call may begin while no search has returned, and beside a running search
\* while fewer than MaxOverlap calls have run beside it.
MayBegin ==
    /\ last.op /= "search"
    /\ IF reader.pc = "idle" THEN TRUE ELSE reader.overlaps < MaxOverlap

\* search up to its test of self.index.ntotal.
search_begin ==
    /\ reader.pc = "idle"
    /\ last.op /= "search"
    /\ \E query \in Queries, k \in Ks, document_id \in Scopes :
           reader' = [pc |-> "ntotal", query |-> query, k |-> k,
                      document_id |-> document_id, versions |-> Versions,
                      overlaps |-> IF writer.pc = "idle" THEN 0 ELSE 1]
    /\ UNCHANGED << index, document_map, diskIndex, diskMap, last, faults, writer,
                    appVars >>

\* if self.index.ntotal == 0: return [].
search_ntotal ==
    /\ reader.pc = "ntotal"
    /\ IF ntotal(index) = 0
       THEN SearchReturn(<< >>)
       ELSE /\ reader' = [reader EXCEPT !.pc = "query"]
            /\ last' = last
    /\ UNCHANGED << index, document_map, diskIndex, diskMap, faults, writer, appVars >>

\* The embedding of the query and self.index.search(..., min(k, ntotal)) on
\* the index as it is now; FAISS refuses k < 1, search catches that and
\* returns [].
search_query ==
    /\ reader.pc = "query"
    /\ LET n == Min(GivenK(reader.k), ntotal(index))
           qv == Embed(reader.query)
       IN  IF n < 1
           THEN SearchReturn(<< >>)
           ELSE /\ \E nb \in NeighbourLists(index, qv, n) :
                       reader' = [pc |-> "format", query |-> reader.query, k |-> reader.k,
                                  document_id |-> reader.document_id,
                                  versions |-> reader.versions,
                                  overlaps |-> reader.overlaps,
                                  scores |-> [i \in 1..n |-> InnerProduct(qv, index[nb[i] + 1])],
                                  indices |-> nb, i |-> 1, results |-> << >>]
                /\ last' = last
    /\ UNCHANGED << index, document_map, diskIndex, diskMap, faults, writer, appVars >>

\* One pass of the loop: self.document_map.get(idx, {}) on the mapping as it
\* is now.
search_format ==
    /\ reader.pc = "format"
    /\ reader.i <= Len(reader.indices)
    /\ reader' = [reader EXCEPT
                    !.results = @ \o FormatResult(reader.scores[reader.i],
                                                  reader.indices[reader.i], document_map,
                                                  similarity_threshold, reader.document_id),
                    !.i = @ + 1]
    /\ UNCHANGED << index, document_map, diskIndex, diskMap, last, faults, writer,
                    appVars >>

\* return results.
search_return ==
    /\ reader.pc = "format"
    /\ reader.i > Len(reader.indices)
    /\ SearchReturn(reader.results)
    /\ UNCHANGED << index, document_map, diskIndex, diskMap, faults, writer, appVars >>

\* A search that is running may answer from the version a call is about to make.
ReaderMaySee(pair) ==
    IF reader.pc = "idle" THEN reader
    ELSE [reader EXCEPT !.versions = @ \cup {pair}, !.overlaps = @ + 1]

\* add_documents(chunks) up to self.index.add(embeddings).
add_documents_index_add ==
    /\ writer.pc = "idle"
    /\ MayBegin
    /\ \E chunks \in ChunkLists \ {<< >>} :
           LET r == AddDocuments(index, document_map, chunks, TRUE)
           IN  /\ ntotal(index) + Len(chunks) <= MaxSlots
               /\ index' = r.index
               /\ writer' = [pc |-> "map", op |-> "add_documents", chunks |-> chunks,
                             start_index |-> ntotal(index), i |-> 1,
                             before |-> Pair(index, document_map),
                             after |-> Pair(r.index, r.document_map)]
               /\ reader' = ReaderMaySee(Pair(r.index, r.document_map))
    /\ UNCHANGED << document_map, diskIndex, diskMap, last, faults, appVars >>

\* self.document_map[vector_index] = {...} for one chunk.
add_documents_map_entry ==
    /\ writer.pc = "map"
    /\ LET vector_index == writer.start_index + writer.i - 1
       IN  document_map' = [key \in (DOMAIN document_map) \cup {vector_index} |->
                               IF key = vector_index
                               THEN ChunkInfo(writer.chunks[writer.i])
                               ELSE document_map[key]]
    /\ writer' = [writer EXCEPT !.i = @ + 1,
                                !.pc = IF writer.i = Len(writer.chunks) THEN "save" ELSE "map"]
    /\ UNCHANGED << index, diskIndex, diskMap, last, faults, reader, appVars >>

\* remove_document(document_id) up to the new index: the keep list, and for
\* the slots kept their vectors and new_document_map.
remove_document_keep ==
    /\ writer.pc = "idle"
    /\ MayBegin
    /\ \E d \in DocIds :
           LET r == RemoveDocument(index, document_map, d)
           IN  /\ r.save
               /\ writer' = [pc |-> "new_index", op |-> "remove_document",
                             document_id |-> d,
                             before |-> Pair(index, document_map),
                             after |-> Pair(r.index, r.document_map)]
               /\ reader' = ReaderMaySee(Pair(r.index, r.document_map))
    /\ UNCHANGED << index, document_map, diskIndex, diskMap, last, faults, appVars >>

\* self.index = faiss.IndexFlatIP(...).
remove_document_new_index ==
    /\ writer.pc = "new_index"
    /\ index' = EmptyIndex
    /\ writer' = [writer EXCEPT
                    !.pc = IF ntotal(writer.after.index) = 0 THEN "new_map" ELSE "add"]
    /\ UNCHANGED << document_map, diskIndex, diskMap, last, faults, reader, appVars >>

\* self.index.add(vectors_array).
remove_document_index_add ==
    /\ writer.pc = "add"
    /\ index' = writer.after.index
    /\ writer' = [writer EXCEPT !.pc = "new_map"]
    /\ UNCHANGED << document_map, diskIndex, diskMap, last, faults, reader, appVars >>

\* self.document_map = new_document_map, or {} when no slot is kept.
remove_document_new_map ==
    /\ writer.pc = "new_map"
    /\ document_map' = writer.after.document_map
    /\ writer' = [writer EXCEPT !.pc = "save"]
    /\ UNCHANGED << index, diskIndex, diskMap, last, faults, reader, appVars >>

\* self._save_index() and the return of add_documents or remove_document.
save_and_return ==
    /\ writer.pc = "save"
    /\ LET saved == SaveIndex(index, document_map, diskIndex, diskMap, "ok")
       IN  /\ diskIndex' = saved.diskIndex
           /\ diskMap' = saved.diskMap
    /\ last' = [op |-> writer.op, raised |-> FALSE]
    /\ writer' = Idle
    /\ UNCHANGED << index, document_map, faults, reader, appVars >>

NextConc ==
    \/ search_begin
    \/ search_ntotal
    \/ search_query
    \/ search_format
    \/ search_return
    \/ add_documents_index_add
    \/ add_documents_map_entry
    \/ remove_document_keep
    \/ remove_document_new_index
    \/ remove_document_index_add
    \/ remove_document_new_map
    \/ save_and_return

SpecConc == Init /\ [][NextConc]_vars

(***************************************************************************)
(* The HTTP handlers of app.py.  Every request constructs its own          *)
(* VectorStore from the two files; the saves succeed.  The requests come   *)
(* from a client address or carry no address; they carry the API key the   *)
(* server asks for (or the server asks for none), or another one.          *)
(***************************************************************************)
\* The second pass of ask: cfg2.similarity_threshold = 0.3.
second_pass_threshold == 3

\* The second pass of ask: max(8, ...).
second_pass_top_k == 8

\* The documents in the order os.listdir gives their processed files.
ListDir == << "d1", "d2" >>

\* The text of a document's processed file has a match of the e-mail or of
\* the phone pattern of ask, as those are written.
ContactMatch(d) == d = "d2"

\* The processed file of document d has a line holding a term of the question.
KeywordMatch(question, d) ==
    \E i \in 1..Len(ChunksOf(d)) : ChunksOf(d)[i].text = question.text

\* The questions: blank, or a text with or without one of the words email,
\* phone, contact.
Questions ==
    { [blank |-> TRUE, text |-> "", contact |-> FALSE] }
    \cup { [blank |-> FALSE, text |-> t, contact |-> c] : t \in Texts, c \in BOOLEAN }

\* A source of the fallbacks: {"type": "file", "path": <processed file of d>}.
FileSource(d) == [type |-> "file", path |-> << "processed", d >>]

\* request.remote_addr: the address of a client, or None.
RemoteAddrs == {"client", None}

\* One session key for every request, whatever its address.
SessionKeyShared(remote_addr) == "default"

\* session_key = request.remote_addr or "default".
SessionKey(remote_addr) == IF Truthy(remote_addr) THEN remote_addr ELSE "default"

\* _active_document_store.get(session_key).
ActiveDocument(session_key) ==
    IF session_key \in DOMAIN active_document_store
    THEN active_document_store[session_key] ELSE None

\* The scope of ask taken from the active document before the body.
ResolveScopeActiveFirst(document_id, session_key) ==
    IF Truthy(ActiveDocument(session_key)) THEN ActiveDocument(session_key)
    ELSE document_id

\* ask: document_id = data.get("document_id"), and the active document of
\* the session when that is not given.
ResolveScope(document_id, session_key) ==
    IF ~Truthy(document_id) THEN ActiveDocument(session_key) ELSE document_id

\* The checks of ask with no test of the content type: get_json(silent=True)
\* gives None for a body that is not JSON, and the question is empty.
AskRejectionJsonUnchecked(authorized, is_json, question) ==
    IF ~authorized THEN 401
    ELSE IF question.blank \/ ~is_json THEN 400
    ELSE 0

\* The checks of ask before it answers: the status it rejects the request
\* with, or 0.
AskRejection(authorized, is_json, question) ==
    IF ~authorized THEN 401
    ELSE IF ~is_json THEN 415
    ELSE IF question.blank THEN 400
    ELSE 0

\* Every way ask answers a question that is not blank for the scope it
\* resolved: the path that made the answer, its sources, and the number of
\* calls of retrieve.
AskAnswers(question, scope, provider_ok, answer_ok) ==
    LET store == LoadOrCreateIndex(diskIndex, diskMap)
        total_vectors == TotalVectors(store.index)
        Response(path, sources, retrievals) ==
            [scope |-> scope, path |-> path, sources |-> sources,
             retrievals |-> retrievals]
        listed == SelectSeq(ListDir, LAMBDA d : d \in processed_files)
        Fallbacks(path, sources, retrievals) ==
            LET retry == ~answer_ok \/ Len(sources) = 0
                scanned == IF Truthy(scope)
                           THEN SelectSeq(<< scope >>, LAMBDA d : d \in processed_files)
                           ELSE listed
                matches == SelectSeq(scanned, LAMBDA d : KeywordMatch(question, d))
            IN  IF retry /\ question.contact /\ \E i \in 1..Len(listed) : ContactMatch(listed[i])
                THEN Response("contact_fallback",
                              [i \in 1..Len(listed) |-> FileSource(listed[i])], retrievals)
                ELSE IF retry /\ Len(matches) > 0
                THEN Response("keyword_fallback",
                              [i \in 1..Len(matches) |-> FileSource(matches[i])], retrievals)
                ELSE Response(path, sources, retrievals)
    IN  IF total_vectors > 0
        THEN UNION {
               LET retrieval == Retrieve(question.text, run, max_context_length)
               IN  IF retrieval.context.length = 0 \/ Len(retrieval.sources) = 0
                   THEN { LET retrieval2 == Retrieve(question.text, run2, max_context_length)
                          IN  IF Len(retrieval2.sources) > 0
                              THEN Fallbacks("second_pass", retrieval2.sources, 2)
                              ELSE Fallbacks("first_pass", retrieval.sources, 2) :
                          run2 \in SearchRuns(store.index, store.document_map,
                                              question.text, {}, scope, provider_ok,
                                              second_pass_threshold,
                                              Max(second_pass_top_k, top_k_results)) }
                   ELSE { Fallbacks("first_pass", retrieval.sources, 1) } :
               run \in SearchRuns(store.index, store.document_map, question.text, {},
                                  scope, provider_ok, environ.similarity_threshold,
                                  top_k_results) }
        ELSE { Response("stub", << >>, 0) }

\* ask and get_active_document change nothing but their answer: one that
\* follows another answers what it would answer in its place, so they are
\* taken in the states the other requests leave.
AppReads == {"ask", "get_active_document"}

\* POST /ask.
ask ==
    /\ last.op \notin AppReads
    /\ \E question \in Questions, authorized \in BOOLEAN, is_json \in BOOLEAN :
           LET rejection == AskRejection(authorized, is_json, question)
           IN  IF rejection /= 0
               THEN last' = [op |-> "ask", status |-> rejection, raised |-> FALSE,
                             authorized |-> authorized, is_json |-> is_json,
                             blank |-> question.blank, retrievals |-> 0]
               ELSE \E document_id \in Scopes, remote_addr \in RemoteAddrs,
                       provider_ok \in BOOLEAN, answer_ok \in BOOLEAN :
                        \E response \in AskAnswers(question,
                                                   ResolveScope(document_id,
                                                                SessionKey(remote_addr)),
                                                   provider_ok, answer_ok) :
                            last' = [op |-> "ask", status |-> 200, raised |-> FALSE,
                                     authorized |-> authorized, is_json |-> is_json,
                                     blank |-> question.blank,
                                     document_id |-> document_id,
                                     remote_addr |-> remote_addr,
                                     scope |-> response.scope, path |-> response.path,
                                     sources |-> response.sources,
                                     retrievals |-> response.retrievals]
    /\ UNCHANGED << index, document_map, diskIndex, diskMap, faults, threadVars, appVars >>

\* The file part of a POST /upload: none, one with an empty filename, one
\* the DocumentProcessor refuses, or one it processes.
FileParts == {"none", "unnamed", "refused", "processed"}

\* POST /upload of a file whose text gives the chunks of document d.
upload_document ==
    \E d \in DocIds \ processed_files, file \in FileParts, authorized \in BOOLEAN,
       provider_ok \in BOOLEAN :
        LET store == LoadOrCreateIndex(diskIndex, diskMap)
            r == AddDocuments(store.index, store.document_map, ChunksOf(d), provider_ok)
            saved == SaveIndex(r.index, r.document_map, diskIndex, diskMap, "ok")
        IN  /\ ntotal(store.index) + Len(ChunksOf(d)) <= MaxSlots
            /\ IF ~authorized \/ file /= "processed"
               THEN /\ UNCHANGED << diskIndex, diskMap, processed_files >>
                    /\ last' = [op |-> "upload_document",
                                status |-> IF ~authorized THEN 401 ELSE 400,
                                authorized |-> authorized, file |-> file,
                                raised |-> FALSE]
               ELSE IF r.raised
               THEN /\ UNCHANGED << diskIndex, diskMap >>
                    /\ processed_files' = processed_files \cup {d}
                    /\ last' = [op |-> "upload_document", status |-> 500,
                                authorized |-> authorized, file |-> file,
                                raised |-> FALSE]
               ELSE /\ diskIndex' = saved.diskIndex
                    /\ diskMap' = saved.diskMap
                    /\ processed_files' = processed_files \cup {d}
                    /\ last' = [op |-> "upload_document", status |-> 201,
                                authorized |-> authorized, file |-> file,
                                document_id |-> d, chunks_indexed |-> Len(ChunksOf(d)),
                                raised |-> FALSE]
            /\ UNCHANGED << index, document_map, faults, threadVars, active_document_store,
                            environ, raceVars >>

\* DELETE /documents/<document_id>.
delete_document ==
    \E d \in DocIds, authorized \in BOOLEAN :
        LET store == LoadOrCreateIndex(diskIndex, diskMap)
            r == RemoveDocument(store.index, store.document_map, d)
            saved == SaveIndex(r.index, r.document_map, diskIndex, diskMap, "ok")
        IN  /\ IF ~authorized
               THEN /\ UNCHANGED << diskIndex, diskMap, processed_files >>
                    /\ last' = [op |-> "delete_document", status |-> 401, raised |-> FALSE]
               ELSE IF r.raised
               THEN /\ UNCHANGED << diskIndex, diskMap, processed_files >>
                    /\ last' = [op |-> "delete_document", status |-> 500, raised |-> FALSE]
               ELSE /\ diskIndex' = IF r.save THEN saved.diskIndex ELSE diskIndex
                    /\ diskMap' = IF r.save THEN saved.diskMap ELSE diskMap
                    /\ processed_files' = processed_files \ {d}
                    /\ last' = [op |-> "delete_document",
                                status |-> IF d \in processed_files THEN 200 ELSE 404,
                                vectors_removed |-> r.result, raised |-> FALSE]
            /\ UNCHANGED << index, document_map, faults, threadVars, active_document_store,
                            environ, raceVars >>

\* POST /active-document with a document id or null.
set_active_document ==
    \E document_id \in Scopes, remote_addr \in RemoteAddrs, is_json \in BOOLEAN :
        LET session_key == SessionKey(remote_addr)
            keys == DOMAIN active_document_store
        IN  /\ IF ~is_json
               THEN UNCHANGED active_document_store
               ELSE IF document_id = None
               THEN active_document_store' =
                        IF keys \ {session_key} = {} THEN EmptyMap
                        ELSE [key \in keys \ {session_key} |-> active_document_store[key]]
               ELSE active_document_store' =
                        [key \in keys \cup {session_key} |->
                            IF key = session_key THEN document_id
                            ELSE active_document_store[key]]
            /\ last' = [op |-> "set_active_document",
                        status |-> IF is_json THEN 200 ELSE 415,
                        remote_addr |-> remote_addr, document_id |-> document_id,
                        raised |-> FALSE]
            /\ UNCHANGED << index, document_map, diskIndex, diskMap, faults, threadVars,
                            processed_files, environ, raceVars >>

\* GET /active-document.
get_active_document ==
    \E remote_addr \in RemoteAddrs :
        /\ last.op \notin AppReads
        /\ last' = [op |-> "get_active_document", status |-> 200,
                    remote_addr |-> remote_addr,
                    document_id |-> ActiveDocument(SessionKey(remote_addr)),
                    raised |-> FALSE]
        /\ UNCHANGED << index, document_map, diskIndex, diskMap, faults, threadVars,
                        appVars >>

NextApp ==
    \/ upload_document
    \/ delete_document
    \/ set_active_document
    \/ get_active_document
    \/ ask

SpecApp == Init /\ [][NextApp]_vars

(***************************************************************************)
(* The handlers under the settings of the environment.  Every handler      *)
(* calls RAGConfig.from_env(); rag_warmup calls validate() on the result.  *)
(* The TextChunker of upload_document works in sentence-aware mode, which  *)
(* from_env() always gives; it compares lengths with chunk_size and        *)
(* chunk_overlap and raises for no value of them.                          *)
(***************************************************************************)
\* RAGConfig.validate: the message of the ValueError it raises, or None.
Validate(config) ==
    IF config.chunk_size <= 0 THEN "chunk_size must be positive"
    ELSE IF config.chunk_overlap >= config.chunk_size
    THEN "chunk_overlap must be less than chunk_size"
    ELSE IF config.similarity_threshold < 0 \/ config.similarity_threshold > 10
    THEN "similarity_threshold must be between 0 and 1"
    ELSE IF top_k_results <= 0 THEN "top_k_results must be positive"
    ELSE None

\* The settings the environment may give: CHUNK_SIZE 0 or 800, CHUNK_OVERLAP
\* 150 or 800, SIMILARITY_THRESHOLD -0.1, 0.7 or 1.5.
Environs ==
    [chunk_size : {0, 800}, chunk_overlap : {150, 800},
     similarity_threshold : {-1, similarity_threshold, 15}]

InitConfig ==
    /\ environ \in Environs
    /\ index = EmptyIndex
    /\ document_map = EmptyMap
    /\ diskIndex = Absent
    /\ diskMap = Absent
    /\ last = [op |-> "init", raised |-> FALSE]
    /\ faults = 0
    /\ reader = Idle
    /\ writer = Idle
    /\ processed_files = {}
    /\ active_document_store = EmptyMap
    /\ requests = [h \in Handlers |-> NoRequest]
    /\ answers = [d \in DocIds |-> NoAnswer]

\* GET /rag/warmup.
rag_warmup ==
    \E provider_ok \in BOOLEAN :
        LET message == Validate(environ)
            store == LoadOrCreateIndex(diskIndex, diskMap)
            embeddings == GenerateEmbeddings(<< "warmup test" >>, provider_ok)
        IN  /\ last.op /= "rag_warmup"
            /\ last' = IF message /= None
                       THEN [op |-> "rag_warmup", status |-> 500, message |-> message,
                             constructed |-> FALSE, raised |-> FALSE]
                       ELSE IF embeddings.raised
                       THEN [op |-> "rag_warmup", status |-> 500, message |-> "provider",
                             constructed |-> TRUE, raised |-> FALSE]
                       ELSE [op |-> "rag_warmup", status |-> 200, message |-> None,
                             constructed |-> TRUE,
                             total_vectors |-> TotalVectors(store.index),
                             raised |-> FALSE]
            /\ UNCHANGED << index, document_map, diskIndex, diskMap, faults, threadVars,
                            appVars >>

NextConfig ==
    \/ rag_warmup
    \/ upload_document
    \/ delete_document
    \/ ask

SpecConfig == InitConfig /\ [][NextConfig]_vars

(***************************************************************************)
(* Two requests at a time.  upload_document and delete_document each       *)
(* construct their own VectorStore on the storage path, change it and save *)
(* it; nothing in app.py or vector_store.py locks the path.  A step is one *)
(* access to the files: the existence test, the read of each file, the     *)
(* write of each file.  Saves succeed.                                     *)
(***************************************************************************)
\* The documents of the requests in flight.
InFlight ==
    { requests[h].document_id : h \in { g \in Handlers : requests[g].pc /= "idle" } }

Quiescent == \A h \in Handlers : requests[h].pc = "idle"

\* The handler is at position pc of a request.
At(h, pc) == requests[h].pc = pc

\* The handler moves to position pc with the store object (idx, dmap).
Goto(h, pc, idx, dmap) ==
    [requests EXCEPT ![h] = [@ EXCEPT !.pc = pc, !.index = idx, !.document_map = dmap]]

\* POST /upload accepted: DocumentProcessor.upload_document has written the
\* processed file of a new document and chunk_text has chunked it.  A
\* document id is generated once.
upload_begin ==
    \E h \in Handlers, d \in DocIds \ (processed_files \cup InFlight) :
        /\ At(h, "idle")
        /\ answers[d] = NoAnswer
        /\ requests' = [requests EXCEPT ![h] =
                           [pc |-> "exists", op |-> "upload_document", document_id |-> d,
                            index |-> EmptyIndex, document_map |-> EmptyMap,
                            status |-> 201]]
        /\ processed_files' = processed_files \cup {d}
        /\ UNCHANGED << index, document_map, diskIndex, diskMap, last, faults, reader,
                        writer, active_document_store, environ, answers >>

\* DELETE /documents/<document_id> accepted, of a document no other request
\* in flight is about and no request has deleted.
delete_begin ==
    \E h \in Handlers, d \in DocIds \ InFlight :
        /\ At(h, "idle")
        /\ answers[d].op /= "delete_document"
        /\ requests' = [requests EXCEPT ![h] =
                           [pc |-> "exists", op |-> "delete_document", document_id |-> d,
                            index |-> EmptyIndex, document_map |-> EmptyMap,
                            status |-> 200]]
        /\ UNCHANGED << index, document_map, diskIndex, diskMap, last, faults, reader,
                        writer, processed_files, active_document_store, environ,
                        answers >>

\* VectorStore(cfg), _load_or_create_index: os.path.exists of both files.
load_exists ==
    \E h \in Handlers :
        /\ At(h, "exists")
        /\ requests' = IF diskIndex.state /= "absent" /\ diskMap.state /= "absent"
                       THEN Goto(h, "read_index", EmptyIndex, EmptyMap)
                       ELSE Goto(h, "ready", EmptyIndex, EmptyMap)
        /\ UNCHANGED << index, document_map, diskIndex, diskMap, last, faults, reader,
                        writer, processed_files, active_document_store, environ,
                        answers >>

\* _load_or_create_index: faiss.read_index(index_path).
load_read_index ==
    \E h \in Handlers :
        /\ At(h, "read_index")
        /\ requests' = IF diskIndex.state = "ok"
                       THEN Goto(h, "read_mapping", diskIndex.content, EmptyMap)
                       ELSE Goto(h, "ready", EmptyIndex, EmptyMap)
        /\ UNCHANGED << index, document_map, diskIndex, diskMap, last, faults, reader,
                        writer, processed_files, active_document_store, environ,
                        answers >>

\* _load_or_create_index: pickle.load of the mapping file.
load_read_mapping ==
    \E h \in Handlers :
        /\ At(h, "read_mapping")
        /\ requests' = IF diskMap.state = "ok"
                       THEN Goto(h, "ready", requests[h].index, diskMap.content)
                       ELSE Goto(h, "ready", EmptyIndex, EmptyMap)
        /\ UNCHANGED << index, document_map, diskIndex, diskMap, last, faults, reader,
                        writer, processed_files, active_document_store, environ,
                        answers >>

\* vs.add_documents(chunks) or vs.remove_document(document_id) up to the
\* call of _save_index.
store_call ==
    \E h \in Handlers, provider_ok \in BOOLEAN :
        LET request == requests[h]
            d == request.document_id
            r == IF request.op = "upload_document"
                 THEN AddDocuments(request.index, request.document_map, ChunksOf(d),
                                   provider_ok)
                 ELSE RemoveDocument(request.index, request.document_map, d)
        IN  /\ At(h, "ready")
            /\ request.op = "upload_document"
                   => ntotal(request.index) + Len(ChunksOf(d)) <= MaxSlots
            /\ request.op = "delete_document" => provider_ok
            /\ requests' = IF r.raised
                           THEN [requests EXCEPT ![h] = [@ EXCEPT !.pc = "respond",
                                                                  !.status = 500]]
                           ELSE IF r.save
                           THEN Goto(h, "write_index", r.index, r.document_map)
                           ELSE Goto(h, "respond", r.index, r.document_map)
            /\ UNCHANGED << index, document_map, diskIndex, diskMap, last, faults,
                            reader, writer, processed_files, active_document_store,
                            environ, answers >>

\* _save_index: faiss.write_index(self.index, index_path).
save_write_index ==
    \E h \in Handlers :
        /\ At(h, "write_index")
        /\ diskIndex' = File(requests[h].index)
        /\ requests' = [requests EXCEPT ![h] = [@ EXCEPT !.pc = "write_mapping"]]
        /\ UNCHANGED << index, document_map, diskMap, last, faults, reader, writer,
                        processed_files, active_document_store, environ, answers >>

\* _save_index: pickle.dump(self.document_map, f).
save_write_mapping ==
    \E h \in Handlers :
        /\ At(h, "write_mapping")
        /\ diskMap' = File(requests[h].document_map)
        /\ requests' = [requests EXCEPT ![h] = [@ EXCEPT !.pc = "respond"]]
        /\ UNCHANGED << index, document_map, diskIndex, last, faults, reader, writer,
                        processed_files, active_document_store, environ, answers >>

\* The rest of the handler: delete_document deletes the files of the
\* document (404 when it has none); the answer carries vs.get_stats().
respond ==
    \E h \in Handlers :
        LET request == requests[h]
            d == request.document_id
            deletes == request.op = "delete_document" /\ request.status /= 500
            answer == [op |-> request.op,
                       status |-> IF deletes /\ d \notin processed_files
                                  THEN 404 ELSE request.status,
                       total_vectors |-> TotalVectors(request.index)]
        IN  /\ At(h, "respond")
            /\ processed_files' = IF deletes THEN processed_files \ {d}
                                  ELSE processed_files
            /\ answers' = [answers EXCEPT ![d] = answer]
            /\ last' = [op |-> request.op, status |-> answer.status,
                        document_id |-> d, total_vectors |-> answer.total_vectors,
                        raised |-> FALSE]
            /\ requests' = [requests EXCEPT ![h] = NoRequest]
            /\ UNCHANGED << index, document_map, diskIndex, diskMap, faults, reader,
                            writer, active_document_store, environ >>

NextRace ==
    \/ upload_begin
    \/ delete_begin
    \/ load_exists
    \/ load_read_index
    \/ load_read_mapping
    \/ store_call
    \/ save_write_index
    \/ save_write_mapping
    \/ respond

SpecRace == Init /\ [][NextRace]_vars

\* The same requests one after the other: a request begins when no other
\* is in flight.
NextSerial ==
    \/ Quiescent /\ upload_begin
    \/ Quiescent /\ delete_begin
    \/ load_exists
    \/ load_read_index
    \/ load_read_mapping
    \/ store_call
    \/ save_write_index
    \/ save_write_mapping
    \/ respond

SpecSerial == Init /\ [][NextSerial]_vars

(***************************************************************************)
(* rag/chunking.py (TextChunker).  A text is the sequence of its           *)
(* characters, each a string of one character; "" is << >>.  The only      *)
(* whitespace of the texts is the space, the only sentence end the full    *)
(* stop.                                                                   *)
(***************************************************************************)
\* Largest number of segments (words, stops, spaces, page markers) of a text.
MaxSegments == 5

Digit == << "0", "1", "2", "3", "4", "5", "6", "7", "8", "9" >>

IsDigit(c) == \E n \in 1..10 : Digit[n] = c

DigitValue(c) == (CHOOSE n \in 1..10 : Digit[n] = c) - 1

\* int(s) of a string of digits.
RECURSIVE ParseInt(_)
ParseInt(s) ==
    IF Len(s) = 0 THEN 0
    ELSE 10 * ParseInt(SubSeq(s, 1, Len(s) - 1)) + DigitValue(s[Len(s)])

\* The decimal digits of n >= 0, without leading zeros.
RECURSIVE Decimal(_)
Decimal(n) ==
    IF n < 10 THEN << Digit[n + 1] >>
    ELSE Append(Decimal(n \div 10), Digit[(n % 10) + 1])

\* The format {:04d}: the decimal digits, filled with zeros on the left to
\* four characters; a number of five digits or more keeps all its digits.
Format04d(n) ==
    LET d == Decimal(n)
    IN  IF Len(d) >= 4 THEN d ELSE [i \in 1..(4 - Len(d)) |-> "0"] \o d

\* not text.strip()
IsBlank(text) == \A i \in 1..Len(text) : text[i] = " "

\* text.strip()
Strip(text) ==
    LET ns == { i \in 1..Len(text) : text[i] /= " " }
    IN  IF ns = {} THEN << >>
        ELSE SubSeq(text, CHOOSE i \in ns : \A j \in ns : i <= j,
                          CHOOSE i \in ns : \A j \in ns : i >= j)

\* ' '.join(parts)
RECURSIVE Join(_)
Join(parts) ==
    IF Len(parts) = 0 THEN << >>
    ELSE IF Len(parts) = 1 THEN parts[1]
    ELSE parts[1] \o << " " >> \o Join(Tail(parts))

\* The position of the last character of the run of characters c that starts
\* at position i; i - 1 when the character at i is not c.
RECURSIVE RunEnd(_, _, _)
RunEnd(text, i, c) ==
    IF i <= Len(text) /\ text[i] = c THEN RunEnd(text, i + 1, c) ELSE i - 1

PageOpen == << "[", "P", "A", "G", "E", " " >>

\* The number of digits from position i on.
RECURSIVE DigitRun(_, _)
DigitRun(text, i) ==
    IF i <= Len(text) /\ IsDigit(text[i]) THEN 1 + DigitRun(text, i + 1) ELSE 0

\* The position of the "]" of a match of \[PAGE (\d+)\] that starts at
\* position i, or 0 when there is no match at i.
MarkerEnd(text, i) ==
    IF text[i] = "[" /\ i + 7 <= Len(text) /\ SubSeq(text, i, i + 5) = PageOpen
    THEN LET n == DigitRun(text, i + 6)
         IN  IF n > 0 /\ i + 6 + n <= Len(text) /\ text[i + 6 + n] = "]"
             THEN i + 6 + n
             ELSE 0
    ELSE 0

\* The positions where the matches start, in increasing order.
MarkerStarts(text) == KeysInOrder({ i \in 1..Len(text) : MarkerEnd(text, i) > 0 })

\* page_pattern.split(text): the text before the first marker, then for
\* every marker its digits and the text that follows it.
PagePatternSplit(text) ==
    LET starts == MarkerStarts(text)
        m == Len(starts)
        piece(k) == SubSeq(text,
                           IF k = 0 THEN 1 ELSE MarkerEnd(text, starts[k]) + 1,
                           IF k = m THEN Len(text) ELSE starts[k + 1] - 1)
        number(k) == SubSeq(text, starts[k] + 6, MarkerEnd(text, starts[k]) - 1)
    IN  [j \in 1..(2 * m + 1) |->
            IF j % 2 = 1 THEN piece((j - 1) \div 2) ELSE number(j \div 2)]

\* TextChunker._split_by_pages.  parts[i] of the code is parts[i + 1] here.
SplitByPages(text) ==
    LET parts == PagePatternSplit(text)
        found == [k \in 1..((Len(parts) - 1) \div 2) |->
                     [page_num |-> ParseInt(parts[2 * k]),
                      page_text |-> Strip(parts[2 * k + 1])]]
        pages == SelectSeq(found, LAMBDA page : Len(page.page_text) > 0)
    IN  IF Len(parts) = 1 THEN << [page_num |-> 1, page_text |-> text] >>
        ELSE IF Len(pages) > 0 THEN pages
        ELSE << [page_num |-> 1, page_text |-> text] >>

\* self.sentence_pattern.split(text) for the pattern [.!?]+\s+ : the pieces
\* of the text from position start on, the scan being at position i.
RECURSIVE SentencePatternSplit(_, _, _)
SentencePatternSplit(text, start, i) ==
    IF i > Len(text) THEN << SubSeq(text, start, Len(text)) >>
    ELSE
      LET stops == RunEnd(text, i, ".")
          spaces == RunEnd(text, stops + 1, " ")
      IN  IF stops >= i /\ spaces > stops
          THEN << SubSeq(text, start, i - 1) >>
               \o SentencePatternSplit(text, spaces + 1, spaces + 1)
          ELSE SentencePatternSplit(text, start, IF stops >= i THEN stops + 1 ELSE i + 1)

\* TextChunker._split_sentences.
SplitSentences(text) ==
    LET pieces == SentencePatternSplit(text, 1, 1)
    IN  SelectSeq([k \in 1..Len(pieces) |-> Strip(pieces[k])], LAMBDA piece : Len(piece) > 0)

\* The loop of _get_overlap_text over reversed(sentences), at sentence i.
RECURSIVE OverlapSentences(_, _, _, _)
OverlapSentences(sentences, i, overlap_length, chunk_overlap) ==
    IF i = 0 THEN << >>
    ELSE IF overlap_length + Len(sentences[i]) <= chunk_overlap
    THEN Append(OverlapSentences(sentences, i - 1, overlap_length + Len(sentences[i]),
                                 chunk_overlap),
                sentences[i])
    ELSE << >>

\* TextChunker._get_overlap_text.
GetOverlapText(sentences, chunk_overlap) ==
    IF Len(sentences) = 0 THEN << >>
    ELSE Join(OverlapSentences(sentences, Len(sentences), 0, chunk_overlap))

\* TextChunker._create_chunk_dict.  The chunk id is the document id, the text
\* "_chunk_" and the characters of the formatted number.
CreateChunkDict(text, document_id, page_num, chunk_id) ==
    [text |-> text,
     document_id |-> document_id,
     chunk_id |-> << document_id, "_chunk_" >> \o Format04d(chunk_id),
     metadata |-> [page |-> page_num, length |-> Len(text), chunk_index |-> chunk_id]]

\* The loop of _create_sentence_chunks at sentence i: the lists current_chunk
\* it joins into chunks, each with the overlap text it was started with.
RECURSIVE SentenceLoop(_, _, _, _, _, _)
SentenceLoop(sentences, i, current_chunk, current_length, overlap_text, config) ==
    IF i > Len(sentences)
    THEN IF Len(current_chunk) > 0
         THEN << [current_chunk |-> current_chunk, overlap_text |-> overlap_text] >>
         ELSE << >>
    ELSE
      LET sentence == sentences[i]
      IN  IF current_length + Len(sentence) > config.chunk_size /\ Len(current_chunk) > 0
          THEN LET next_overlap == GetOverlapText(current_chunk, config.chunk_overlap)
                   next_chunk == IF Len(next_overlap) > 0
                                 THEN << next_overlap, sentence >>
                                 ELSE << sentence >>
               IN  << [current_chunk |-> current_chunk, overlap_text |-> overlap_text] >>
                   \o SentenceLoop(sentences, i + 1, next_chunk, Len(Join(next_chunk)),
                                   next_overlap, config)
          ELSE SentenceLoop(sentences, i + 1, Append(current_chunk, sentence),
                            current_length + Len(sentence) + 1, overlap_text, config)

\* The same loop, giving for every pass that appends the sentence to a
\* current_chunk that is not empty the list after the append, and whether
\* the list was started after a chunk was closed (seeded) or is the first of
\* the page.
RECURSIVE SentenceLoopAppends(_, _, _, _, _, _)
SentenceLoopAppends(sentences, i, current_chunk, current_length, seeded, config) ==
    IF i > Len(sentences) THEN << >>
    ELSE
      LET sentence == sentences[i]
      IN  IF current_length + Len(sentence) > config.chunk_size /\ Len(current_chunk) > 0
          THEN LET next_overlap == GetOverlapText(current_chunk, config.chunk_overlap)
                   next_chunk == IF Len(next_overlap) > 0
                                 THEN << next_overlap, sentence >>
                                 ELSE << sentence >>
               IN  SentenceLoopAppends(sentences, i + 1, next_chunk, Len(Join(next_chunk)),
                                       TRUE, config)
          ELSE (IF Len(current_chunk) > 0
                THEN << [current_chunk |-> Append(current_chunk, sentence),
                         seeded |-> seeded] >>
                ELSE << >>)
               \o SentenceLoopAppends(sentences, i + 1, Append(current_chunk, sentence),
                                      current_length + Len(sentence) + 1, seeded, config)

\* TextChunker._create_sentence_chunks.
CreateSentenceChunks(sentences, document_id, page_num, start_counter, config) ==
    LET joined == SentenceLoop(sentences, 1, << >>, 0, << >>, config)
    IN  [n \in 1..Len(joined) |->
            CreateChunkDict(Join(joined[n].current_chunk), document_id, page_num,
                            start_counter + n - 1)]

\* _create_character_chunks with the window moved on by chunk_size.
CreateCharacterChunksSideBySide(text, document_id, page_num, start_counter, config) ==
    LET step == config.chunk_size
        count == IF Len(text) = 0 THEN 0 ELSE (Len(text) - 1) \div step + 1
        windows == [j \in 1..count |->
                       Strip(SubSeq(text, (j - 1) * step + 1,
                                    Min((j - 1) * step + config.chunk_size, Len(text))))]
        kept == SelectSeq(windows, LAMBDA chunk_text : Len(chunk_text) > 0)
    IN  [n \in 1..Len(kept) |->
            CreateChunkDict(kept[n], document_id, page_num, start_counter + n - 1)]

\* TextChunker._create_character_chunks: window j (from 1) is the pass of the
\* loop with i = (j - 1) * step; the windows that are not empty when stripped
\* are numbered from start_counter in the order of the loop.
CreateCharacterChunks(text, document_id, page_num, start_counter, config) ==
    LET step == config.chunk_size - config.chunk_overlap
        count == IF Len(text) = 0 THEN 0 ELSE (Len(text) - 1) \div step + 1
        windows == [j \in 1..count |->
                       Strip(SubSeq(text, (j - 1) * step + 1,
                                    Min((j - 1) * step + config.chunk_size, Len(text))))]
        kept == SelectSeq(windows, LAMBDA chunk_text : Len(chunk_text) > 0)
    IN  [n \in 1..Len(kept) |->
            CreateChunkDict(kept[n], document_id, page_num, start_counter + n - 1)]

\* TextChunker._chunk_page_text.
ChunkPageText(text, document_id, page_num, start_counter, config) ==
    IF IsBlank(text) THEN << >>
    ELSE IF config.preserve_sentences
    THEN CreateSentenceChunks(SplitSentences(text), document_id, page_num, start_counter,
                              config)
    ELSE CreateCharacterChunks(text, document_id, page_num, start_counter, config)

\* The loop of chunk_text with a counter that starts again on every page.
RECURSIVE ChunkPagesCountingPerPage(_, _, _, _, _)
ChunkPagesCountingPerPage(pages, p, chunk_counter, document_id, config) ==
    IF p > Len(pages) THEN << >>
    ELSE ChunkPageText(pages[p].page_text, document_id, pages[p].page_num, 0, config)
         \o ChunkPagesCountingPerPage(pages, p + 1, 0, document_id, config)

\* The loop of chunk_text over the pages, from page p on.
RECURSIVE ChunkPages(_, _, _, _, _)
ChunkPages(pages, p, chunk_counter, document_id, config) ==
    IF p > Len(pages) THEN << >>
    ELSE LET page_chunks == ChunkPageText(pages[p].page_text, document_id,
                                          pages[p].page_num, chunk_counter, config)
         IN  page_chunks
             \o ChunkPages(pages, p + 1, chunk_counter + Len(page_chunks), document_id,
                           config)

\* TextChunker.chunk_text.
ChunkText(text, document_id, config) ==
    IF IsBlank(text) THEN << >>
    ELSE ChunkPages(SplitByPages(text), 1, 0, document_id, config)

(***************************************************************************)
(* chunk_text as a function of its inputs: a text, a document id and the   *)
(* configuration of the chunker.                                           *)
(***************************************************************************)
\* What the texts are made of: two words, a sentence end, a space, a marker.
Segments ==
    { << "a" >>, << "b", "b" >>, << ".", " " >>, << " " >>, PageOpen \o << "2", "]" >> }

\* The texts of at most n segments.
RECURSIVE TextsOf(_)
TextsOf(n) ==
    IF n = 0 THEN { << >> }
    ELSE LET shorter == TextsOf(n - 1)
         IN  shorter \cup { t \o s : t \in shorter, s \in Segments }

\* chunk_size, chunk_overlap and preserve_sentences, with
\* 0 <= chunk_overlap < chunk_size.
ChunkConfigs ==
    { config \in [chunk_size : 1..3, chunk_overlap : 0..2, preserve_sentences : BOOLEAN] :
        config.chunk_overlap < config.chunk_size }

\* A text of 120 characters with a "b" at the offsets 0, 40 and 80, for
\* windows of 50 characters that overlap by 10.
ExampleText == [i \in 1..120 |-> IF i % 40 = 1 THEN "b" ELSE "a"]

ExampleConfig == [chunk_size |-> 50, chunk_overlap |-> 10, preserve_sentences |-> FALSE]

\* A text of 10001 characters, for windows of one character.
ManyText == [i \in 1..10001 |-> "a"]

ManyConfig == [chunk_size |-> 1, chunk_overlap |-> 0, preserve_sentences |-> FALSE]

ChunkInputs ==
    { [text |-> text, document_id |-> "d1", config |-> config] :
        text \in TextsOf(MaxSegments), config \in ChunkConfigs }
    \cup { [text |-> ExampleText, document_id |-> "d1", config |-> ExampleConfig],
           [text |-> ManyText, document_id |-> "d2", config |-> ManyConfig] }

InitChunk ==
    /\ last \in { [op |-> "input", raised |-> FALSE, text |-> input.text,
                   document_id |-> input.document_id, config |-> input.config] :
                  input \in ChunkInputs }
    /\ index = EmptyIndex
    /\ document_map = EmptyMap
    /\ diskIndex = Absent
    /\ diskMap = Absent
    /\ faults = 0
    /\ reader = Idle
    /\ writer = Idle
    /\ processed_files = {}
    /\ active_document_store = EmptyMap
    /\ requests = [h \in Handlers |-> NoRequest]
    /\ answers = [d \in DocIds |-> NoAnswer]
    /\ environ = DefaultEnviron

\* chunk_text(text, document_id) of a TextChunker with the configuration.
chunk_text ==
    /\ last.op = "input"
    /\ last' = [op |-> "chunk_text", raised |-> FALSE, text |-> last.text,
                document_id |-> last.document_id, config |-> last.config,
                chunks |-> ChunkText(last.text, last.document_id, last.config)]
    /\ UNCHANGED << index, document_map, diskIndex, diskMap, faults, threadVars,
                    appVars >>

NextChunk == chunk_text

SpecChunk == InitChunk /\ [][NextChunk]_vars

(***************************************************************************)
(* Properties of remove_document, of the saves and of the constructor.     *)
(***************************************************************************)
\* The calls that change the store and save it.
Writes == {"add_documents", "remove_document", "clear"}

\* Every search for document d on the store as it is now returns the empty list.
NothingFoundFor(d) ==
    \A query \in Queries, k \in Ks, provider_ok \in BOOLEAN :
        \A run \in SearchRuns(index, document_map, query, k, d, provider_ok,
                              similarity_threshold, top_k_results) :
            run.results = << >>

\* C1: after remove_document(d) has returned, no slot of document_map is bound
\* to d, and as long as no slot is bound to d every search with document_id = d
\* returns the empty list, for every query and every k; a slot becomes bound to
\* d only by an add_documents call whose chunks include chunks of d.
C1_RemovedDocumentIsNotFound ==
    /\ [](last.op = "remove_document" /\ ~last.raised
              => SlotsOf(document_map, last.document_id) = {})
    /\ [](\A d \in DocIds : SlotsOf(document_map, d) = {} => NothingFoundFor(d))
    /\ [](last.op = "search" /\ Truthy(last.document_id)
          /\ SlotsOf(document_map, last.document_id) = {}
              => last.results = << >>)
    /\ [][\A d \in DocIds :
            SlotsOf(document_map, d) = {} /\ SlotsOf(document_map', d) /= {}
                => last'.op = "add_documents" /\ d \in DocsOf(last'.chunks)]_vars

\* C1 happens: remove_document(d) removed slots and returned, the search that
\* followed asked for d with a query whose nearest neighbour is a chunk of equal
\* text in the other document, and returned nothing.
C1_Witness ==
    /\ last.op = "search"
    /\ last.prev.op = "remove_document"
    /\ ~last.prev.raised
    /\ last.prev.result > 0
    /\ last.document_id = last.prev.document_id
    /\ last.provider_ok
    /\ last.k = {}
    /\ last.query = "ta"
    /\ Len(last.neighbours) > 0
    /\ last.results = << >>

\* C2: whenever remove_document(d) returns, it returns the number of slots
\* that were bound to d, and total_vectors has gone down by that number.
C2_RemoveCountsAndTotal ==
    last.op = "remove_document" /\ ~last.raised
        => /\ last.result = last.bound_before
           /\ TotalVectors(index) = last.total_before - last.result

\* C7: when add_documents (of chunks), remove_document (of a document with a
\* slot) or clear returns normally, the two files hold the in-memory index and
\* mapping, so that a store constructed now starts with exactly that pair; and
\* a save that fails makes the call raise.
C7_ReturnedMeansPersisted ==
    last.op \in Writes /\ last.save /= "none"
        => /\ ~last.raised
               => /\ diskIndex = File(index)
                  /\ diskMap = File(document_map)
                  /\ LoadOrCreateIndex(diskIndex, diskMap)
                         = [index |-> index, document_map |-> document_map]
           /\ last.save /= "ok" => last.raised

\* C7 happens: after a save has failed, a remove_document that removed slots
\* and left others returned normally.
C7_Witness ==
    /\ last.op = "remove_document"
    /\ last.save = "ok"
    /\ ~last.raised
    /\ last.result > 0
    /\ ntotal(index) > 0
    /\ faults > 0

\* C8: the pair a constructed VectorStore starts with is consistent (the keys
\* of the mapping are exactly the slots 0..ntotal-1 of the index).
C8_ConstructedConsistent ==
    last.op = "VectorStore"
        => DOMAIN document_map = 0..(ntotal(index) - 1)

\* Where C2 fails: a store constructed from an index file and a mapping file
\* of different saves, on which remove_document has returned.
C2_TornStoreRemoved ==
    /\ last.op = "remove_document"
    /\ ~last.raised
    /\ last.result > 0
    /\ TotalVectors(index) /= last.total_before - last.result

\* Where C8 fails: the constructor has loaded an index and a mapping that do
\* not belong together.
C8_TornPairLoaded ==
    /\ last.op = "VectorStore"
    /\ ntotal(index) > 0
    /\ DOMAIN document_map /= 0..(ntotal(index) - 1)

\* The index holds vectors and document_map binds every slot of it to d.
OwnsEverySlot(idx, dmap, d) ==
    /\ ntotal(idx) > 0
    /\ \A slot \in 0..(ntotal(idx) - 1) :
           slot \in DOMAIN dmap /\ dmap[slot].document_id = d

\* Every search on the store as it is now returns the empty list and does
\* not raise.
EverySearchEmpty ==
    \A query \in Queries, k \in Ks, d \in Scopes, provider_ok \in BOOLEAN :
        \A run \in SearchRuns(index, document_map, query, k, d, provider_ok,
                              similarity_threshold, top_k_results) :
            run.results = << >> /\ ~run.raised

\* C20: remove_document(d) on a store whose every index slot belongs to d
\* leaves the empty index and the empty mapping, total_vectors = 0; and on an
\* empty index every search returns the empty list without raising.
C20_OwnerRemovedLeavesEmptyStore ==
    /\ [][\A d \in DocIds :
            /\ last'.op = "remove_document"
            /\ last'.document_id = d
            /\ OwnsEverySlot(index, document_map, d)
            => /\ index' = EmptyIndex
               /\ document_map' = EmptyMap
               /\ TotalVectors(index') = 0]_vars
    /\ [](ntotal(index) = 0 => EverySearchEmpty)

\* Where C20 fails: on a store constructed from an index file and a mapping
\* file of different saves, every slot of the index belongs to d, the mapping
\* has an entry of another document beyond the index, and remove_document(d)
\* has raised and left the store as it was.
C20_OwnerStillThere ==
    /\ last.op = "remove_document"
    /\ last.raised
    /\ last.save = "none"
    /\ OwnsEverySlot(index, document_map, last.document_id)
    /\ TotalVectors(index) = last.total_before

(***************************************************************************)
(* Properties of the slot numbering: add_documents, remove_document, clear.*)
(***************************************************************************)
\* The keys of the mapping are exactly the slots 0..N-1 of the index.
DenseKeys(idx, dmap) == DOMAIN dmap = 0..(ntotal(idx) - 1)

\* C25: a store starts empty with dense keys, and every add_documents,
\* remove_document and clear call on a store whose mapping keys are exactly
\* 0..N-1 (N = total_vectors) leaves a store whose mapping keys are exactly
\* 0..N'-1 for its new total_vectors N', whether its save succeeds or fails.
C25_SlotsStayDense ==
    /\ [](last.op = "init" => DenseKeys(index, document_map))
    /\ [][last'.op \in Writes /\ DenseKeys(index, document_map)
            => /\ DenseKeys(index', document_map')
               /\ Cardinality(DOMAIN document_map') = TotalVectors(index')]_vars

\* C25 happens: a save has failed before, and a remove_document on a store
\* of dense keys has removed slots from the middle or the front and left
\* others under dense keys.
C25_Witness ==
    /\ last.op = "remove_document"
    /\ last.result > 0
    /\ last.total_before = last.result + TotalVectors(index)
    /\ TotalVectors(index) > 0
    /\ DenseKeys(index, document_map)
    /\ document_map[0].document_id = "d2"
    /\ faults > 0

\* The (embedding, chunk) entries of a store in the order of their slots; a
\* slot the index does not hold has no embedding.
EntriesOf(idx, dmap) ==
    LET keys == KeysInOrder(DOMAIN dmap)
    IN  [n \in 1..Len(keys) |->
            [chunk |-> dmap[keys[n]],
             embedding |-> IF keys[n] < ntotal(idx) THEN idx[keys[n] + 1] ELSE None]]

\* remove_document(d) finds slots of d and slots of other documents.
MatchesSomeNotAll(dmap, d) ==
    /\ SlotsOf(dmap, d) /= {}
    /\ SlotsOf(dmap, d) /= DOMAIN dmap

\* C26: when remove_document(d) matches some but not all slots, the entries
\* after the call are the entries before the call without those of d, in the
\* same order, under the keys 0, 1, 2, ..., each chunk with its own embedding.
C26_RemoveKeepsTheOthersInOrder ==
    [][last'.op = "remove_document"
       /\ MatchesSomeNotAll(document_map, last'.document_id)
         => /\ EntriesOf(index', document_map')
                = SelectSeq(EntriesOf(index, document_map),
                            LAMBDA entry : entry.chunk.document_id /= last'.document_id)
            /\ DenseKeys(index', document_map')]_vars

\* Where C26 fails: on a store constructed from an index file and a mapping
\* file of different saves, remove_document(d) matched some but not all
\* entries of the mapping, raised, and left every entry of d in place.
C26_EntriesOfTheDocumentStay ==
    /\ last.op = "remove_document"
    /\ last.raised
    /\ last.save = "none"
    /\ MatchesSomeNotAll(document_map, last.document_id)
    /\ Cardinality(SlotsOf(document_map, last.document_id)) = last.bound_before

\* C27: add_documents(chunks) with n > 0 chunks and a working provider on an
\* index of N vectors leaves N + n vectors, slot N + i holding the embedding
\* of chunk i and bound to chunk i, and the slots below N as they were, also
\* when a chunk_id is in the mapping already; add_documents([]) changes
\* neither the index, the mapping nor the files.
C27_AddAppendsInOrder ==
    [][last'.op = "add_documents"
         => LET chunks == last'.chunks
                N == ntotal(index)
                n == Len(chunks)
            IN  /\ n > 0 /\ last'.provider_ok
                    => /\ TotalVectors(index') = N + n
                       /\ \A i \in 0..(n - 1) :
                            /\ index'[N + i + 1] = Embed(chunks[i + 1].text)
                            /\ document_map'[N + i].document_id = chunks[i + 1].document_id
                            /\ document_map'[N + i].chunk_id = chunks[i + 1].chunk_id
                            /\ document_map'[N + i].text = chunks[i + 1].text
                            /\ document_map'[N + i].metadata = chunks[i + 1].metadata
                       /\ \A slot \in 0..(N - 1) :
                            /\ index'[slot + 1] = index[slot + 1]
                            /\ slot \in DOMAIN document_map
                                 => /\ slot \in DOMAIN document_map'
                                    /\ document_map'[slot] = document_map[slot]
                /\ n = 0 => /\ UNCHANGED << index, document_map, diskIndex, diskMap >>
                            /\ ~last'.raised]_vars

\* C27 happens: add_documents has added a chunk whose chunk_id was in the
\* mapping already, and two slots hold that chunk_id now.
C27_Witness ==
    /\ last.op = "add_documents"
    /\ ~last.raised
    /\ Len(last.chunks) > 0
    /\ ntotal(index) > Len(last.chunks)
    /\ \E old \in 0..(ntotal(index) - Len(last.chunks) - 1) :
           /\ old \in DOMAIN document_map
           /\ document_map[old].chunk_id = last.chunks[1].chunk_id
           /\ document_map[ntotal(index) - Len(last.chunks)].chunk_id
                = last.chunks[1].chunk_id

\* C28: when no slot of the mapping belongs to d, remove_document(d) returns
\* 0 without raising, saves nothing, and leaves the index, the mapping and
\* the two files as they were.
C28_RemoveOfUnknownDocumentChangesNothing ==
    [][last'.op = "remove_document" /\ SlotsOf(document_map, last'.document_id) = {}
         => /\ last'.result = 0
            /\ ~last'.raised
            /\ last'.save = "none"
            /\ UNCHANGED << index, document_map, diskIndex, diskMap >>]_vars

\* C28 happens: remove_document(d) found no slot of d on a store that holds
\* vectors of another document and whose index file is not what a save of
\* that store would write.
C28_Witness ==
    /\ last.op = "remove_document"
    /\ last.bound_before = 0
    /\ last.result = 0
    /\ last.save = "none"
    /\ ntotal(index) > 0
    /\ diskIndex /= File(index)

(***************************************************************************)
(* Properties of search and retrieve.                                      *)
(***************************************************************************)
\* The score of the vector in a slot for a query text.
ScoreOf(query, slot) == InnerProduct(Embed(query), index[slot + 1])

\* C3: the list search returns has at most min(k, N) entries, none scored
\* below similarity_threshold, none of another document than the one asked
\* for, in descending order of score; and when the provider has embedded the
\* query it is exactly this list: the min(k or top_k_results, N) nearest
\* neighbours of the query, best first, without those scored below the
\* threshold and those of another document, in the order of the neighbours.
C3_SearchReturnsFilteredNeighbours ==
    last.op = "search" =>
        LET n == Min(GivenK(last.k), ntotal(index))
            nb == last.neighbours
            res == last.results
            survives(slot) ==
                /\ ScoreOf(last.query, slot) >= similarity_threshold
                /\ Truthy(last.document_id)
                       => /\ slot \in DOMAIN document_map
                          /\ document_map[slot].document_id = last.document_id
            survivors == SelectSeq(nb, survives)
        IN  /\ Len(res) <= Max(n, 0)
            /\ \A i \in 1..Len(res) : res[i].score >= similarity_threshold
            /\ Truthy(last.document_id)
                   => \A i \in 1..Len(res) : res[i].document_id = last.document_id
            /\ \A i, j \in 1..Len(res) : i < j => res[i].score >= res[j].score
            /\ last.provider_ok =>
                   /\ Len(nb) = Max(n, 0)
                   /\ \A i, j \in 1..Len(nb) : i < j => nb[i] /= nb[j]
                   /\ \A i, j \in 1..Len(nb) :
                          i < j => ScoreOf(last.query, nb[i]) >= ScoreOf(last.query, nb[j])
                   /\ \A i \in 1..Len(nb), m \in 0..(ntotal(index) - 1) :
                          (\A j \in 1..Len(nb) : nb[j] /= m)
                              => ScoreOf(last.query, m) <= ScoreOf(last.query, nb[i])
                   /\ Len(res) = Len(survivors)
                   /\ \A i \in 1..Len(res) :
                          /\ res[i].score = ScoreOf(last.query, survivors[i])
                          /\ res[i].document_id = document_map[survivors[i]].document_id
                          /\ res[i].chunk_id = document_map[survivors[i]].chunk_id
                          /\ res[i].text = document_map[survivors[i]].text
                          /\ res[i].metadata = document_map[survivors[i]].metadata

\* C3 happens: a search with k = 2 on three vectors, for one document, took
\* two neighbours and returned one of them, the other being of another document.
C3_Witness ==
    /\ last.op = "search"
    /\ last.provider_ok
    /\ last.k = {2}
    /\ last.document_id = "d2"
    /\ ntotal(index) = 3
    /\ Len(last.neighbours) = 2
    /\ Len(last.results) = 1

\* The search asked for in C4: it follows an add_documents call that has
\* returned, its query is the text of the added chunk c, the provider works, k
\* is 1 or more or the default, and the document asked for, if any, is that of c.
SearchesForAdded(c) ==
    /\ last.op = "search"
    /\ last.prev.op = "add_documents"
    /\ ~last.prev.raised
    /\ \E i \in 1..Len(last.prev.chunks) : last.prev.chunks[i] = c
    /\ last.query = c.text
    /\ last.provider_ok
    /\ GivenK(last.k) >= 1
    /\ last.document_id \in {None, c.document_id}

\* Position i of the results is chunk c with a score not below the threshold
\* and not below any other score of the results.
ReturnedOnTop(c, i) ==
    /\ i \in 1..Len(last.results)
    /\ last.results[i].chunk_id = c.chunk_id
    /\ last.results[i].document_id = c.document_id
    /\ last.results[i].score >= similarity_threshold
    /\ \A j \in 1..Len(last.results) : last.results[i].score >= last.results[j].score

\* C4 as stated: add_documents(chunks) followed immediately by a search for
\* the exact text of an added chunk returns that chunk, scored not below the
\* threshold and not below any other result.
C4_AddedChunkIsReturned ==
    \A c \in AllChunks :
        SearchesForAdded(c) => \E i \in 1..Len(last.results) : ReturnedOnTop(c, i)

\* The slots whose vector is the embedding of the text.
SlotsEmbedding(text) == { m \in 0..(ntotal(index) - 1) : index[m + 1] = Embed(text) }

\* C4 amended: such a search returns the added chunk, scored not below the
\* threshold and not below any other result, whenever the vectors equal to the
\* chunk's embedding are at most min(k, N); and a search without document_id
\* returns in first place a result of the chunk's text with the score of a
\* vector with itself.
C4_AddedChunkIsReturnedUnlessCrowdedOut ==
    \A c \in AllChunks :
        SearchesForAdded(c) =>
            /\ Cardinality(SlotsEmbedding(c.text)) <= Min(GivenK(last.k), ntotal(index))
                   => \E i \in 1..Len(last.results) : ReturnedOnTop(c, i)
            /\ last.document_id = None
                   => /\ Len(last.results) >= 1
                      /\ last.results[1].text = c.text
                      /\ last.results[1].score = InnerProduct(Embed(c.text), Embed(c.text))
                      /\ last.results[1].score >= similarity_threshold

\* C4 happens: chunks of d1 were added to a store holding the chunk of d2 with
\* the same text as chunk 0 of d1, and the search for that text with k = 2
\* returned chunk 0 of d1 and the chunk of d2.
C4_Witness ==
    /\ SearchesForAdded(ChunksOf("d1")[1])
    /\ last.k = {2}
    /\ last.document_id = None
    /\ Len(last.results) = 2
    /\ \E i \in 1..2 : ReturnedOnTop(ChunksOf("d1")[1], i)
    /\ \E i \in 1..2 : last.results[i].document_id = "d2"

\* C5: retrieve never raises, and when the embedding of the query has failed
\* it returns an empty context, no sources, results_found = 0 and statistics
\* with an error field.
C5_RetrieveReportsFailure ==
    last.op = "retrieve" =>
        /\ ~last.raised
        /\ ~last.provider_ok /\ last.failed
               => /\ last.result.context.length = 0
                  /\ last.result.sources = << >>
                  /\ last.result.retrieval_stats.results_found = 0
                  /\ "error" \in DOMAIN last.result.retrieval_stats

\* Where C5 fails: the provider failed in a retrieve on a store with vectors,
\* and the statistics returned have no error field.
C5_FailureNotReported ==
    /\ last.op = "retrieve"
    /\ ~last.provider_ok
    /\ last.failed
    /\ ntotal(index) > 0
    /\ last.result.sources = << >>
    /\ "error" \notin DOMAIN last.result.retrieval_stats

\* C9: a failure of the embedding provider in add_documents (of chunks) or in
\* search (on a store with vectors) raises to the caller of that call, and
\* retrieve does not raise.
C9_ProviderFailurePropagates ==
    /\ last.op = "add_documents" /\ ~last.provider_ok /\ Len(last.chunks) > 0
           => last.raised
    /\ last.op = "search" /\ ~last.provider_ok /\ ntotal(index) > 0
           => last.raised
    /\ last.op = "retrieve" => ~last.raised

\* Where C9 fails: the provider failed in a search with the default k on a
\* store with vectors, and search returned the empty list.
C9_SearchSwallowsFailure ==
    /\ last.op = "search"
    /\ ~last.provider_ok
    /\ last.k = {}
    /\ ntotal(index) > 0
    /\ last.caught
    /\ ~last.raised
    /\ last.results = << >>

(***************************************************************************)
(* Properties of retrieve: the quality filter, the sources, the stats.     *)
(***************************************************************************)
\* The chunks of the search results that retrieve goes on with: those the
\* quality filter does not class as low quality, or all of them when it
\* classes every one as low quality.
Surviving(search_results) ==
    LET good == { i \in 1..Len(search_results) :
                    ~IsLowQualityChunk(search_results[i].text) }
    IN  IF good = {} THEN search_results
        ELSE [n \in 1..Cardinality(good) |->
                 search_results[CHOOSE i \in good :
                                    Cardinality({ j \in good : j <= i }) = n]]

\* C11: when search has returned at least one candidate, retrieve returns at
\* least one source; and when the filter classes every candidate as low
\* quality, the sources and the context are made of all the candidates, in the
\* order search returned them.
C11_FilterNeverEmptiesCandidates ==
    last.op = "retrieve" /\ Len(last.search_results) > 0 =>
        LET sr == last.search_results
            res == last.result
        IN  /\ Len(res.sources) >= 1
            /\ res.retrieval_stats.results_found >= 1
            /\ Len(res.context.parts) >= 1
            /\ (\A i \in 1..Len(sr) : IsLowQualityChunk(sr[i].text))
                   => /\ Len(res.sources) = Len(sr)
                      /\ \A i \in 1..Len(sr) :
                             /\ res.sources[i].chunk_id = sr[i].chunk_id
                             /\ res.sources[i].document_id = sr[i].document_id
                             /\ res.sources[i].score = sr[i].score
                      /\ res.context.parts = [i \in 1..Len(sr) |-> sr[i].text]

\* C11 happens: search returned one candidate, the table-of-contents line, the
\* filter classes it as low quality, and retrieve returned it as its source.
C11_Witness ==
    /\ last.op = "retrieve"
    /\ Len(last.search_results) = 1
    /\ IsLowQualityChunk(last.search_results[1].text)
    /\ Len(last.result.sources) = 1
    /\ last.result.sources[1].chunk_id = last.search_results[1].chunk_id

\* The retrieve of the invoice example: the query "invoice total" for document
\* inv1, both chunks of inv1 among the search results.
InvoiceRetrieval ==
    /\ last.op = "retrieve"
    /\ last.query = "tq"
    /\ last.document_id = "inv1"
    /\ \A c \in { LibraryChunks("inv1")[i] : i \in 1..2 } :
           \E i \in 1..Len(last.search_results) :
               /\ last.search_results[i].chunk_id = c.chunk_id
               /\ last.search_results[i].text = c.text

\* C12: with the chunks "Table of Contents .......... 1" and "The invoice
\* total is $450 due on May 1." of inv1 both returned by the search for
\* "invoice total" in inv1, retrieve returns the invoice chunk as a source and
\* the context does not hold the text of the table-of-contents chunk.
C12_InvoiceWithoutTableOfContents ==
    InvoiceRetrieval =>
        /\ \E i \in 1..Len(last.result.sources) :
               last.result.sources[i].chunk_id = "inv1_chunk_0001"
        /\ \A i \in 1..Len(last.result.context.parts) :
               last.result.context.parts[i] /= "tb"

\* Where C12 fails: the invoice line is one line of 39 characters, so the
\* filter classes it as low quality as well, and retrieve goes on with both
\* chunks: the context holds the table-of-contents line.
C12_TableOfContentsInContext ==
    /\ InvoiceRetrieval
    /\ IsLowQualityChunk("ti")
    /\ IsLowQualityChunk("tb")
    /\ last.result.context.parts = << "ti", "tb" >>
    /\ Len(last.result.sources) = 2

\* The length of the context parts joined by the separator of 7 characters.
JoinedLength(parts) ==
    SumSeq([i \in 1..Len(parts) |-> TextLen(parts[i])])
        + (IF Len(parts) = 0 THEN 0 ELSE 7 * (Len(parts) - 1))

\* C15: the context is made of the texts of the surviving chunks in the order
\* search returned them, joined by the separator; it is the whole joined
\* string when that has at most max_context_length characters, and otherwise
\* its first max_context_length characters followed by "...".
C15_ContextJoinedAndCut ==
    last.op = "retrieve" =>
        LET s == Surviving(last.search_results)
            context == last.result.context
            joined == JoinedLength([i \in 1..Len(s) |-> s[i].text])
        IN  /\ context.parts = [i \in 1..Len(s) |-> s[i].text]
            /\ joined <= max_context_length
                   => ~context.truncated /\ context.length = joined
            /\ joined > max_context_length
                   => context.truncated /\ context.length = max_context_length + 3

\* C15 happens: three chunks of 2500, 1493 and 250 characters survive and the
\* context is cut to 4000 characters and "...".
C15_Witness ==
    /\ last.op = "retrieve"
    /\ last.result.context.parts = << "tl", "tm", "ta" >>
    /\ last.result.context.truncated
    /\ last.result.context.length = max_context_length + 3

\* C13: when search has returned no candidate, on an empty index or on one
\* with vectors, retrieve returns the empty context, no source, and stats with
\* results_found = 0 and avg_score = 0.0.
C13_NoCandidatesGiveEmptyRetrieval ==
    last.op = "retrieve" /\ Len(last.search_results) = 0 =>
        /\ last.result.context.parts = << >>
        /\ last.result.context.length = 0
        /\ last.result.sources = << >>
        /\ last.result.retrieval_stats.results_found = 0
        /\ last.result.retrieval_stats.avg_score.total = 0
        /\ last.result.retrieval_stats.avg_score.count > 0
        /\ last.result.retrieval_stats.query = last.query

\* C13 happens: the provider worked, the index holds vectors, none of them
\* scores at the threshold for the query, and retrieve returned no source.
C13_Witness ==
    /\ last.op = "retrieve"
    /\ last.provider_ok
    /\ GivenK(last.k) >= 1
    /\ ntotal(index) > 0
    /\ last.search_results = << >>
    /\ last.result.sources = << >>

\* C14: for a retrieve with at least one candidate, results_found is the
\* number of surviving chunks and the number of sources, total_retrieved is
\* the number of candidates, filtered_out is their difference, and avg_score
\* is the mean of the scores of the surviving chunks.
C14_StatsCountSurvivors ==
    last.op = "retrieve" /\ Len(last.search_results) > 0 =>
        LET sr == last.search_results
            s == Surviving(sr)
            st == last.result.retrieval_stats
        IN  /\ st.results_found = Len(s)
            /\ st.results_found = Len(last.result.sources)
            /\ st.total_retrieved = Len(sr)
            /\ st.filtered_out = st.total_retrieved - st.results_found
            /\ st.avg_score.count = Len(s)
            /\ st.avg_score.total = SumSeq([i \in 1..Len(s) |-> s[i].score])

\* C14 happens: of two candidates with different scores the better one was
\* filtered out, so the mean of the survivors is not the mean of the candidates.
C14_Witness ==
    /\ last.op = "retrieve"
    /\ Len(last.search_results) = 2
    /\ last.search_results[1].score > last.search_results[2].score
    /\ IsLowQualityChunk(last.search_results[1].text)
    /\ last.result.retrieval_stats.results_found = 1
    /\ last.result.retrieval_stats.filtered_out = 1
    /\ last.result.retrieval_stats.avg_score
           = [total |-> last.search_results[2].score, count |-> 1]

\* C16: retrieve builds one source per surviving chunk, in the same order,
\* and the snippet of every source has at most 200 characters.
C16_OneSourcePerSurvivorSnippetAtMost200 ==
    last.op = "retrieve" /\ Len(last.search_results) > 0 =>
        LET s == Surviving(last.search_results)
            sources == last.result.sources
        IN  /\ Len(sources) = Len(s)
            /\ \A i \in 1..Len(s) :
                   /\ sources[i].chunk_id = s[i].chunk_id
                   /\ sources[i].document_id = s[i].document_id
                   /\ sources[i].snippet.of = s[i].text
                   /\ sources[i].snippet.length <= 200

\* Where C16 fails: the source of a chunk of 250 characters has a snippet of
\* 203 characters, the first 200 of the text and the three of "...".
C16_SnippetOf203Characters ==
    /\ last.op = "retrieve"
    /\ \E i \in 1..Len(last.result.sources) :
           /\ TextLen(last.result.sources[i].snippet.of) = 250
           /\ last.result.sources[i].snippet.length = 203

(***************************************************************************)
(* Properties of search running beside add_documents or remove_document.   *)
(***************************************************************************)
\* C6: a search that runs beside add_documents or remove_document returns
\* what a search on one version of the store returns, a version being the
\* index and the mapping as they are before or after one of those calls: each
\* result carries the chunk that version binds to the matched vector.
C6_SearchSeesOneVersion ==
    last.op = "search" =>
        \E v \in last.versions :
            \E run \in SearchRuns(v.index, v.document_map, last.query, last.k,
                                  last.document_id, TRUE, similarity_threshold,
                                  top_k_results) :
                run.results = last.results

\* Where C6 fails: a search has returned a result for a vector the mapping did
\* not bind to a chunk when the result was made.
C6_UnboundVectorReturned ==
    /\ last.op = "search"
    /\ \E i \in 1..Len(last.results) : last.results[i].chunk_id = "unknown"

(***************************************************************************)
(* Properties of the handlers.                                             *)
(***************************************************************************)
\* A source of an answer refers to document d: a retrieval source by its
\* document_id, a file source by its path.
RefersTo(source, d) ==
    IF "type" \in DOMAIN source
    THEN source.path = FileSource(d).path
    ELSE source.document_id = d

\* C10: when POST /ask is answered for a document scope d (the document_id of
\* the body, or else the active document), every source of the answer refers
\* to d, whichever path made the answer.
C10_SourcesAreOfTheScope ==
    last.op = "ask" /\ last.status = 200 /\ Truthy(last.scope)
        => \A i \in 1..Len(last.sources) : RefersTo(last.sources[i], last.scope)

\* Where C10 fails: the contact-info fallback answered a question scoped to d1
\* with the processed file of d2 among the sources.
C10_ContactFallbackLeavesScope ==
    /\ last.op = "ask"
    /\ last.status = 200
    /\ last.scope = "d1"
    /\ last.path = "contact_fallback"
    /\ \E i \in 1..Len(last.sources) : last.sources[i] = FileSource("d2")

(***************************************************************************)
(* Properties of the handlers: the active document, the scope of ask, the  *)
(* requests that are rejected.                                             *)
(***************************************************************************)
\* What GET /active-document answers to a request from remote_addr now.
StoredFor(remote_addr) == ActiveDocument(SessionKey(remote_addr))

\* C22: no session has an active document at the start; a POST
\* /active-document that is accepted makes the document id of its body (null
\* included) the value GET /active-document returns to its session and
\* leaves the value of every other session as it was; no other request
\* changes the value of any session; and GET /active-document returns the
\* value of its session with status 200.
C22_ActiveDocumentPerSession ==
    /\ [](last.op = "init" => \A a \in RemoteAddrs : StoredFor(a) = None)
    /\ [](last.op = "get_active_document"
            => last.status = 200 /\ last.document_id = StoredFor(last.remote_addr))
    /\ [][last'.op = "set_active_document" /\ last'.status = 200
            => \A a \in RemoteAddrs :
                   StoredFor(a)' = IF a = last'.remote_addr THEN last'.document_id
                                   ELSE StoredFor(a)]_vars
    /\ [][~(last'.op = "set_active_document" /\ last'.status = 200)
            => \A a \in RemoteAddrs : StoredFor(a)' = StoredFor(a)]_vars

\* C22 happens: GET /active-document has answered a client with the document
\* it posted while the session of the requests without an address has
\* another document active.
C22_Witness ==
    /\ last.op = "get_active_document"
    /\ last.remote_addr = "client"
    /\ last.document_id = "d1"
    /\ StoredFor(None) = "d2"

\* C23: the scope POST /ask answers for is the document_id of the body when
\* one is given, otherwise the active document of the session, otherwise
\* none; and POST /ask leaves the active documents as they are.
C23_AskScopeBodyThenActive ==
    /\ [](last.op = "ask" /\ last.status = 200
            => last.scope = IF Truthy(last.document_id) THEN last.document_id
                            ELSE StoredFor(last.remote_addr))
    /\ [][last'.op = "ask" => active_document_store' = active_document_store]_vars

\* C23 happens: a question with document_id d2 in its body, from a session
\* whose active document is d1, was answered from retrieved chunks of d2.
C23_Witness ==
    /\ last.op = "ask"
    /\ last.status = 200
    /\ last.document_id = "d2"
    /\ StoredFor(last.remote_addr) = "d1"
    /\ last.scope = "d2"
    /\ last.path = "first_pass"
    /\ Len(last.sources) > 0
    /\ \A i \in 1..Len(last.sources) : last.sources[i].document_id = "d2"

ConsumesConfig(answer) ==
    CASE answer.op = "rag_warmup" -> TRUE
      [] answer.op = "upload_document" -> answer.authorized /\ answer.file = "processed"
      [] answer.op = "ask" -> answer.status \notin {400, 401, 415}
      [] answer.op = "delete_document" -> answer.status /= 401
      [] OTHER -> FALSE

\* C21: under settings with chunk_size <= 0, chunk_overlap >= chunk_size or
\* similarity_threshold outside [0,1], every upload, ask, delete and warm-up
\* request that reads the configuration is answered with an error, and
\* neither the processed files nor the index, the mapping or their files
\* are written.
C21_InvalidConfigRejectedBeforeIO ==
    [][Validate(environ) /= None /\ ConsumesConfig(last')
         => /\ last'.status = 500
            /\ UNCHANGED << index, document_map, diskIndex, diskMap,
                            processed_files >>]_vars

\* Where C21 fails: under chunk_size = 0 POST /upload has processed the file,
\* chunked it, embedded the chunks, written the index files and answered 201.
C21_UploadIndexedUnderInvalidConfig ==
    /\ last.op = "upload_document"
    /\ last.status = 201
    /\ environ.chunk_size <= 0
    /\ last.document_id \in processed_files
    /\ diskIndex.state = "ok"
    /\ ntotal(diskIndex.content) >= last.chunks_indexed
    /\ last.chunks_indexed > 0

\* GET /rag/warmup under invalid settings answers 500 with the message of
\* validate() before it constructs the VectorStore.
WarmupValidatesFirst ==
    last.op = "rag_warmup" /\ Validate(environ) /= None
        => /\ last.status = 500
           /\ last.message = Validate(environ)
           /\ ~last.constructed

(***************************************************************************)
(* Properties of requests at the same time.                                *)
(***************************************************************************)
\* The files hold every chunk of the document: an entry of the mapping file
\* under a slot of the index file that holds the chunk's embedding.
Persisted(d) ==
    /\ diskIndex.state = "ok"
    /\ diskMap.state = "ok"
    /\ \A i \in 1..Len(ChunksOf(d)) :
          \E key \in DOMAIN diskMap.content :
              /\ key < ntotal(diskIndex.content)
              /\ diskMap.content[key] = ChunkInfo(ChunksOf(d)[i])
              /\ diskIndex.content[key + 1] = Embed(ChunksOf(d)[i].text)

\* The last answer about the document is the 201 of an upload.
Uploaded(d) == answers[d].op = "upload_document" /\ answers[d].status = 201

\* C30: when the requests have been answered, the files hold the chunks of
\* every document whose upload was answered 201 and that no request has
\* deleted since, whatever the interleaving of the uploads with each other
\* and with deletes of other documents.
C30_UploadsSurviveOtherRequests ==
    Quiescent => \A d \in DocIds : Uploaded(d) => Persisted(d)

\* Where C30 fails for a delete: the upload of d2 saw the two vectors of d1
\* and answered 201 with three vectors, the delete of d1 was answered last,
\* and the files hold no chunk of d2.
C30_UploadLostToDelete ==
    /\ Quiescent
    /\ Uploaded("d2")
    /\ answers["d2"].total_vectors = 3
    /\ last.op = "delete_document"
    /\ last.document_id = "d1"
    /\ last.status = 200
    /\ diskMap.state = "ok"
    /\ SlotsOf(diskMap.content, "d2") = {}

\* The counterpart for uploads: both uploads were answered 201, each with
\* the vectors of its own document only, and the files hold one of them.
C30_UploadLostToUpload ==
    /\ Quiescent
    /\ Uploaded("d1") /\ answers["d1"].total_vectors = 2
    /\ Uploaded("d2") /\ answers["d2"].total_vectors = 1
    /\ ~(Persisted("d1") /\ Persisted("d2"))

(***************************************************************************)
(* Properties of chunk_text.                                               *)
(***************************************************************************)
\* The characters of a chunk id after the document id and "_chunk_".
IdDigits(chunk) == SubSeq(chunk.chunk_id, 3, Len(chunk.chunk_id))

\* The order of two strings of digits as strings: a is before b.
StringLess(a, b) ==
    \E k \in 1..(Min(Len(a), Len(b)) + 1) :
        /\ \A j \in 1..(k - 1) : a[j] = b[j]
        /\ IF k > Len(a) THEN k <= Len(b)
           ELSE k <= Len(b) /\ DigitValue(a[k]) < DigitValue(b[k])

\* Chunk i of the list (from 1) carries the counter value i - 1: in
\* chunk_index, and in the chunk id as the decimal number filled with zeros
\* to four digits.
NumberedFromZero(chunks, document_id) ==
    \A i \in 1..Len(chunks) :
        /\ chunks[i].metadata.chunk_index = i - 1
        /\ chunks[i].document_id = document_id
        /\ SubSeq(chunks[i].chunk_id, 1, 2) = << document_id, "_chunk_" >>
        /\ \A k \in 1..Len(IdDigits(chunks[i])) : IsDigit(IdDigits(chunks[i])[k])
        /\ ParseInt(IdDigits(chunks[i])) = i - 1
        /\ Len(IdDigits(chunks[i])) >= 4
        /\ Len(IdDigits(chunks[i])) > 4 => IdDigits(chunks[i])[1] /= "0"

\* C17 as stated: the i-th chunk chunk_text returns (from 0) has
\* chunk_index = i and the chunk id of i filled with zeros to four digits,
\* whatever the pages; the chunk ids are pairwise distinct, and as strings
\* they increase in the order of the chunks.
C17_ChunkIdsNumberedAndIncreasing ==
    last.op = "chunk_text" =>
        /\ NumberedFromZero(last.chunks, last.document_id)
        /\ Cardinality({ last.chunks[i].chunk_id : i \in 1..Len(last.chunks) })
               = Len(last.chunks)
        /\ \A i \in 1..(Len(last.chunks) - 1) :
               StringLess(IdDigits(last.chunks[i]), IdDigits(last.chunks[i + 1]))

\* C17 amended: the numbering and the distinctness as stated; the chunk ids
\* increase as strings over the first 10000 chunks (the counters of four
\* digits), and the id of counter 10000, of five digits, is before the id of
\* counter 9999.
C17_ChunkIdsNumberedIncreasingUpTo9999 ==
    last.op = "chunk_text" =>
        /\ NumberedFromZero(last.chunks, last.document_id)
        /\ Cardinality({ last.chunks[i].chunk_id : i \in 1..Len(last.chunks) })
               = Len(last.chunks)
        /\ \A i \in 1..(Len(last.chunks) - 1) :
               i < 10000 => StringLess(IdDigits(last.chunks[i]), IdDigits(last.chunks[i + 1]))
        /\ Len(last.chunks) > 10000
               => StringLess(IdDigits(last.chunks[10001]), IdDigits(last.chunks[10000]))

\* C17 happens: a text of two pages, the first page giving two chunks, the
\* second page a third with the counter value 2.
C17_Witness ==
    /\ last.op = "chunk_text"
    /\ Len(SplitByPages(last.text)) = 2
    /\ Len(ChunkPageText(SplitByPages(last.text)[1].page_text, last.document_id, 2, 0,
                         last.config)) = 2
    /\ Len(last.chunks) = 3
    /\ last.chunks[3].metadata.chunk_index = 2
    /\ IdDigits(last.chunks[3]) = << "0", "0", "0", "2" >>

\* The concatenation of a sequence of sequences.
RECURSIVE Flatten(_)
Flatten(seqs) == IF Len(seqs) = 0 THEN << >> ELSE Head(seqs) \o Flatten(Tail(seqs))

\* The texts between the page markers of a text: the text before the first
\* marker, then the text after each marker.
TextParts(text) ==
    LET parts == PagePatternSplit(text)
    IN  [k \in 1..((Len(parts) + 1) \div 2) |-> parts[2 * k - 1]]

\* The sentences of a text in their order: those of the text as one page
\* when no marker is followed by text, and else those of its parts, each
\* part without the whitespace around it.
InputSentences(text) ==
    LET parts == TextParts(text)
    IN  IF \A k \in 2..Len(parts) : IsBlank(parts[k])
        THEN SplitSentences(text)
        ELSE Flatten([k \in 1..Len(parts) |-> SplitSentences(Strip(parts[k]))])

\* The lists current_chunk that sentence mode joins into the chunks of a
\* text, page after page, each with the overlap text it starts with.
JoinedLists(text, config) ==
    LET pages == IF IsBlank(text) THEN << >> ELSE SplitByPages(text)
    IN  Flatten([p \in 1..Len(pages) |->
                    IF IsBlank(pages[p].page_text) THEN << >>
                    ELSE SentenceLoop(SplitSentences(pages[p].page_text), 1, << >>, 0,
                                      << >>, config)])

\* C18: in sentence mode with chunk_overlap < chunk_size, every chunk but the
\* first of a page starts with the overlap text, which ends the chunk before
\* it; the chunks without their overlap texts, one after the other, are the
\* sentences of the input, each once and in their order.
C18_ChunksWithoutOverlapAreTheSentences ==
    last.op = "chunk_text" /\ last.config.preserve_sentences
    /\ last.config.chunk_overlap < last.config.chunk_size =>
        LET lists == JoinedLists(last.text, last.config)
            chunks == last.chunks
            rest(n) == IF Len(lists[n].overlap_text) > 0
                       THEN Tail(lists[n].current_chunk)
                       ELSE lists[n].current_chunk
        IN  /\ Len(chunks) = Len(lists)
            /\ \A n \in 1..Len(lists) :
                   /\ chunks[n].text = Join(lists[n].current_chunk)
                   /\ Len(lists[n].overlap_text) > 0
                          => /\ n > 1
                             /\ lists[n].current_chunk[1] = lists[n].overlap_text
                             /\ Len(lists[n].overlap_text) <= Len(chunks[n - 1].text)
                             /\ SubSeq(chunks[n - 1].text,
                                       Len(chunks[n - 1].text) - Len(lists[n].overlap_text) + 1,
                                       Len(chunks[n - 1].text)) = lists[n].overlap_text
            /\ Flatten([n \in 1..Len(lists) |-> rest(n)]) = InputSentences(last.text)

\* Where C18 fails: the text "a[PAGE 2]bb" in sentence mode gives the one
\* chunk "bb"; the sentence before the first page marker is in no chunk.
C18_SentenceBeforeFirstMarkerLost ==
    /\ last.op = "chunk_text"
    /\ last.config.preserve_sentences
    /\ last.text = << "a" >> \o PageOpen \o << "2", "]", "b", "b" >>
    /\ InputSentences(last.text) = << << "a" >>, << "b", "b" >> >>
    /\ Len(last.chunks) = 1
    /\ last.chunks[1].text = << "b", "b" >>

\* The windows of a page text that character mode makes chunks of: one at
\* every multiple of the stride below the length of the text, each the
\* stripped text of at most chunk_size characters from there, without the
\* windows that are empty when stripped.
WindowsOf(page_text, config) ==
    LET stride == config.chunk_size - config.chunk_overlap
        offsets == { o \in 0..(Len(page_text) - 1) : o % stride = 0 }
        window(o) == Strip(SubSeq(page_text, o + 1,
                                  Min(o + config.chunk_size, Len(page_text))))
    IN  SelectSeq([j \in 1..Cardinality(offsets) |-> window((j - 1) * stride)],
                  LAMBDA w : Len(w) > 0)

\* C19: in character mode with 0 <= chunk_overlap < chunk_size the chunks of
\* a text are, page after page, the stripped windows at the offsets 0, s,
\* 2s, ... below the length of the page text (s = chunk_size - chunk_overlap)
\* that are not empty, each of at most chunk_size characters; for chunk_size
\* 50, chunk_overlap 10 and 120 characters they are the windows at 0, 40, 80.
C19_CharacterWindows ==
    last.op = "chunk_text" /\ ~last.config.preserve_sentences
    /\ 0 <= last.config.chunk_overlap
    /\ last.config.chunk_overlap < last.config.chunk_size =>
        LET pages == IF IsBlank(last.text) THEN << >> ELSE SplitByPages(last.text)
            windows == Flatten([p \in 1..Len(pages) |->
                                   WindowsOf(pages[p].page_text, last.config)])
        IN  /\ [n \in 1..Len(last.chunks) |-> last.chunks[n].text] = windows
            /\ \A n \in 1..Len(last.chunks) :
                   /\ Len(last.chunks[n].text) <= last.config.chunk_size
                   /\ Len(last.chunks[n].text) > 0
                   /\ last.chunks[n].metadata.length = Len(last.chunks[n].text)
            /\ last.text = ExampleText /\ last.config = ExampleConfig
                   => [n \in 1..Len(last.chunks) |-> last.chunks[n].text]
                          = << SubSeq(ExampleText, 1, 50), SubSeq(ExampleText, 41, 90),
                               SubSeq(ExampleText, 81, 120) >>

\* C19 happens: the text of 120 characters with windows of 50 characters
\* that overlap by 10 gave three chunks of 50, 50 and 40 characters, each
\* starting at a "b".
C19_Witness ==
    /\ last.op = "chunk_text"
    /\ last.text = ExampleText
    /\ last.config = ExampleConfig
    /\ Len(last.chunks) = 3
    /\ [n \in 1..3 |-> Len(last.chunks[n].text)] = << 50, 50, 40 >>
    /\ \A n \in 1..3 : last.chunks[n].text[1] = "b"

\* The appends of chunk_text(text) in sentence-aware mode, page after page.
AppendsOf(text, config) ==
    IF IsBlank(text) \/ ~config.preserve_sentences THEN << >>
    ELSE LET pages == SplitByPages(text)
         IN  Flatten([p \in 1..Len(pages) |->
                        SentenceLoopAppends(SplitSentences(pages[p].page_text), 1, << >>, 0,
                                            FALSE, config)])

\* C29: in sentence-aware mode, whenever a sentence is appended to a current
\* chunk that is not empty, the chunk text after the append (the sentences
\* joined by single spaces) has at most chunk_size characters, in the first
\* chunk of a page and in a chunk started after a close alike.
C29_AppendStaysWithinChunkSize ==
    last.op = "chunk_text"
        => LET appends == AppendsOf(last.text, last.config)
           IN  \A n \in 1..Len(appends) :
                   Len(Join(appends[n].current_chunk)) <= last.config.chunk_size

\* Where C29 fails: a sentence was appended to a chunk started after a close,
\* and chunk_text has returned the chunk with chunk_size + 1 characters.
C29_AppendedChunkOneTooLong ==
    /\ last.op = "chunk_text"
    /\ last.config.preserve_sentences
    /\ LET appends == AppendsOf(last.text, last.config)
       IN  \E n \in 1..Len(appends), c \in 1..Len(last.chunks) :
               /\ appends[n].seeded
               /\ last.chunks[c].text = Join(appends[n].current_chunk)
               /\ Len(last.chunks[c].text) = last.config.chunk_size + 1

\* In the first chunk of a page every append stays within chunk_size.
FirstChunkAppendsWithinChunkSize ==
    last.op = "chunk_text"
        => LET appends == AppendsOf(last.text, last.config)
           IN  \A n \in 1..Len(appends) :
                   ~appends[n].seeded
                       => Len(Join(appends[n].current_chunk)) <= last.config.chunk_size

\* In a chunk started after a close every append stays within chunk_size + 1.
SeededChunkAppendsWithinOneMore ==
    last.op = "chunk_text"
        => LET appends == AppendsOf(last.text, last.config)
           IN  \A n \in 1..Len(appends) :
                   Len(Join(appends[n].current_chunk)) <= last.config.chunk_size + 1

====
